---- MODULE Spec2Model ----
(***************************************************************************)
(* Verification model of the staleness-driven batch refresh pipeline of    *)
(* the investment-app backend: the Yahoo Finance quote provider with its   *)
(* credential cache, the fetch-prices-batch job, the recalc-metrics-batch  *)
(* job, the reference-ticker merge, and the pure helpers they use.         *)
(*                                                                         *)
(* Strings whose letter case matters are sequences of one-character        *)
(* strings, so that toUpperCase is computed character by character.        *)
(* Times are integers on one clock; an absent value of an optional record  *)
(* is the empty sequence and a present one a one-element sequence.         *)
(***************************************************************************)
EXTENDS Integers, Sequences, FiniteSets, TLC

VARIABLES
    \* ---- YahooFinanceQuoteProvider (one instance) and its credential cache
    cookie,      \* this.cookie: 0 is null, n > 0 the cookie of the n-th handshake
    crumb,       \* this.crumb:  0 is null, n > 0 the crumb of the n-th handshake
    cache,       \* the credential cache slot: <<>> or <<[cookie, crumb, expiresAt, parsable]>>
    pnow,        \* the provider's clock, this.now()
    ppc,         \* where the current fetchQuotes call stands
    pbatches,    \* the batches not yet completed, the current one first
    isRetry,     \* fetchBatch's isRetry argument
    presults,    \* fetchQuotes' results accumulated so far
    tmpCookie,   \* fetchRemoteCredentials' local cookie, between the two requests
    handshakes,  \* number of cookie requests answered with a cookie so far
    blog,        \* the data calls of the current batch: <<[status, payload]>>
    binval,      \* number of cache.invalidate() calls of the current batch
    bstate,      \* "running", "returned" or "threw": the current batch's fetchBatch
    bresult,     \* what fetchBatch returned for the current batch
    preturn,     \* what fetchQuotes returned
    perror,      \* the message of the error fetchQuotes threw, "" if none
    pcalls,      \* number of fetchQuotes calls started
    ptickers,    \* the argument of the current fetchQuotes call
    ptrace,      \* the cache and upstream calls of the current batch, in order
    prequests,   \* the data calls of the current fetchQuotes call, in order
    pcalled,     \* which cache and handshake calls the current fetchQuotes call made
    pfirst,      \* the cache.load of the call's first ensureCredentials, if it made one
    pexpires,    \* expiresAt of the pair last put in this.cookie / this.crumb
    \* ---- pure functions applied to drawn inputs
    fn,          \* which function the input is for
    arg,         \* the drawn input
    res,         \* <<>> before the function is applied, <<result>> after
    \* ---- the durable store and the batch jobs
    store,       \* the tables: asset_tickers, asset_quotes, positions, metrics
    clock,       \* the wall clock
    last,        \* what the last completed operation was and what it returned
    steps,       \* number of operations on the store completed so far
    recomputed,  \* the portfolios a metrics run has recomputed successfully
    inflight     \* a recomputePortfolio between its loads and its persist: <<>> or
                 \* <<[portfolioId, asOf, positions, quotes, persisted]>>

providerVars ==
    <<cookie, crumb, cache, pnow, ppc, pbatches, isRetry, presults, tmpCookie,
      handshakes, blog, binval, bstate, bresult, preturn, perror, pcalls,
      ptickers, ptrace, prequests, pcalled, pfirst, pexpires>>
pureVars == <<fn, arg, res>>
storeVars == <<store, clock, last, steps, recomputed, inflight>>
vars == <<providerVars, pureVars, storeVars>>

(***************************************************************************)
(* Bounds of the model.                                                    *)
(***************************************************************************)
MaxCalls == 1        \* fetchQuotes calls per behaviour
MaxClock == 2        \* how far the provider's clock advances
CredentialTtl == 2   \* credentialTtlMs, in clock units

(***************************************************************************)
(* Generic helpers.                                                        *)
(***************************************************************************)
Range(s) == {s[i] : i \in DOMAIN s}

\* F applied to the value of v, v being evaluated once
With(v, F(_)) == CHOOSE r \in {F(x) : x \in {v}} : TRUE

Min(a, b) == IF a <= b THEN a ELSE b

Max(a, b) == IF a >= b THEN a ELSE b

RECURSIVE Dedup(_)
\* Array.from(new Set(list)): the first occurrence of each element, in order
Dedup(s) ==
    IF s = <<>> THEN <<>>
    ELSE LET init == Dedup(SubSeq(s, 1, Len(s) - 1))
             x == s[Len(s)]
         IN IF x \in Range(init) THEN init ELSE Append(init, x)

(***************************************************************************)
(* String.prototype.toUpperCase over the letters the model uses.           *)
(***************************************************************************)
LowerChars == <<"a", "b", "c", "d", "e", "f", "g", "h", "i", "j", "k", "l">>
UpperChars == <<"A", "B", "C", "D", "E", "F", "G", "H", "I", "J", "K", "L">>

UpperChar(c) ==
    IF \E i \in DOMAIN LowerChars : LowerChars[i] = c
    THEN UpperChars[CHOOSE i \in DOMAIN LowerChars : LowerChars[i] = c]
    ELSE c

ToUpperCase(s) == [i \in DOMAIN s |-> UpperChar(s[i])]

Str(c) == <<c>>

(***************************************************************************)
(* YahooFinanceQuoteProvider: response parsing.                            *)
(* An optional JSON number is [k |-> "num", v |-> n], [k |-> "NaN", ...]   *)
(* (typeof NaN is "number") or [k |-> "absent", ...] (missing or of        *)
(* another type).  An optional JSON string is "" when missing.             *)
(***************************************************************************)
Num(n) == [k |-> "num", v |-> n]
NaNValue == [k |-> "NaN", v |-> 0]
Absent == [k |-> "absent", v |-> 0]

\* typeof x === "number"
IsNumber(x) == x.k \in {"num", "NaN"}

\* the regular-session price only
SelectRegularPrice(entry) == entry.regularMarketPrice

\* entry.regularMarketPrice, else postMarketPrice, else preMarketPrice, else null
SelectPrice(entry) ==
    IF IsNumber(entry.regularMarketPrice) THEN entry.regularMarketPrice
    ELSE IF IsNumber(entry.postMarketPrice) THEN entry.postMarketPrice
    ELSE IF IsNumber(entry.preMarketPrice) THEN entry.preMarketPrice
    ELSE Absent

\* entry.regularMarketTime, else postMarketTime, else preMarketTime, else null
SelectTime(entry) ==
    IF IsNumber(entry.regularMarketTime) THEN entry.regularMarketTime
    ELSE IF IsNumber(entry.postMarketTime) THEN entry.postMarketTime
    ELSE IF IsNumber(entry.preMarketTime) THEN entry.preMarketTime
    ELSE Absent

\* tsSeconds ? new Date(tsSeconds * 1000) : new Date(): null, NaN and 0 are falsy
PriceTime(ts, wallClock) ==
    IF ts.k = "num" /\ ts.v # 0 THEN ts.v ELSE wallClock

\* entry.currency when a non-empty string, else "USD"
SelectCurrency(entry) == IF entry.currency # "" THEN entry.currency ELSE "USD"

RECURSIVE ParseQuoteResponse(_, _, _)
\* one RemoteQuote per usable entry of the payload, in payload order
ParseQuoteResponse(payload, expectedSymbols, wallClock) ==
    IF payload = <<>> THEN <<>>
    ELSE LET entry == Head(payload)
             ticker == ToUpperCase(entry.symbol)
             price == SelectPrice(entry)
             rest == ParseQuoteResponse(Tail(payload), expectedSymbols, wallClock)
         IN IF entry.symbol = <<>> \/ ticker \notin Range(expectedSymbols)
            THEN rest
            ELSE IF price.k # "num"
            THEN rest
            ELSE <<[ticker |-> ticker,
                    price |-> price.v,
                    currency |-> SelectCurrency(entry),
                    priceTime |-> PriceTime(SelectTime(entry), wallClock),
                    exchange |-> entry.fullExchangeName]>> \o rest

\* a quote entry as the upstream sends it for a symbol, regular-session fields only
RegularEntry(symbol, price, ts) ==
    [symbol |-> symbol,
     regularMarketPrice |-> price, postMarketPrice |-> Absent, preMarketPrice |-> Absent,
     regularMarketTime |-> ts, postMarketTime |-> Absent, preMarketTime |-> Absent,
     currency |-> "USD", fullExchangeName |-> "NASDAQ"]

(***************************************************************************)
(* YahooFinanceQuoteProvider: batching, credentials, the 401 retry.        *)
(***************************************************************************)
MAX_SYMBOLS_PER_REQUEST == 10

\* all the symbols in one request
OneBatch(normalized) == <<normalized>>

RECURSIVE Batches(_)
\* normalized.slice(i, i + MAX_SYMBOLS_PER_REQUEST) for i = 0, 10, 20, ...
Batches(normalized) ==
    IF normalized = <<>> THEN <<>>
    ELSE LET n == Min(Len(normalized), MAX_SYMBOLS_PER_REQUEST)
         IN <<SubSeq(normalized, 1, n)>>
            \o Batches(SubSeq(normalized, n + 1, Len(normalized)))

\* Array.from(new Set(tickers.map((ticker) => ticker.toUpperCase())))
Normalize(tickers) == Dedup([i \in DOMAIN tickers |-> ToUpperCase(tickers[i])])

\* the ticker lists fetchQuotes is called with
ElevenTickers ==
    <<Str("A"), Str("B"), Str("C"), Str("D"), Str("E"), Str("F"),
      Str("G"), Str("H"), Str("I"), Str("J"), Str("K")>>
FetchInputs ==
    {<<>>, <<Str("a")>>, <<Str("A"), Str("b"), Str("a")>>, ElevenTickers}

\* what the upstream may answer to a data call for symbols
DataPayloads(symbols) ==
    {<<>>}
    \cup {[i \in DOMAIN symbols |-> RegularEntry(symbols[i], Num(p), Num(1))] :
            p \in {10, 11}}
    \cup {<<RegularEntry(symbols[1], NaNValue, Absent)>>}
DataResponses(symbols) ==
    {[status |-> 401, payload |-> <<>>], [status |-> 500, payload |-> <<>>]}
    \cup {[status |-> 200, payload |-> pl] : pl \in DataPayloads(symbols)}

\* a retry that is not limited to one
RetryAlways(retry) == TRUE

\* every status is taken for a success
AnyStatusOk(status) == TRUE

\* response.ok
ResponseOk(status) == status >= 200 /\ status <= 299

\* a record that is present counts as usable
UsableWhenPresent(cached, now) == cached # <<>>

\* no cached record counts as usable
NeverUsable(cached, now) == FALSE

\* fetchBatch, response.status === 401: throw when this already is the retry
RetryAfterUnauthorized(retry) == ~retry

\* tryLoadFromCache: the cached record is usable
CacheUsable(cached, now) ==
    /\ cached # <<>>
    /\ cached[1].parsable
    /\ ~(cached[1].expiresAt <= now)

ProviderIdle == ppc \in {"idle", "done", "failed"}

\* one call the provider makes to its cache or to the upstream, as ptrace keeps
\* it: what was called, whether it came back without an error, the cookie and
\* crumb sent or obtained, the symbols and the answer's status of a data call,
\* and for a call to the cache the record it held (load) or was given (save)
\* and this.now() at that call
Event(e, ok) ==
    [e |-> e, ok |-> ok, cookie |-> 0, crumb |-> 0, symbols |-> <<>>,
     status |-> 0, record |-> <<>>, at |-> 0]

\* fetchQuotes up to the first fetchBatch
FetchQuotes ==
    /\ ProviderIdle
    /\ pcalls < MaxCalls
    /\ \E tickers \in FetchInputs :
         LET normalized == Normalize(tickers)
         IN /\ pbatches' = Batches(normalized)
            /\ ppc' = IF normalized = <<>> THEN "done" ELSE "ensure"
            /\ ptickers' = tickers
    /\ pcalls' = pcalls + 1
    /\ isRetry' = FALSE
    /\ presults' = <<>>
    /\ preturn' = <<>>
    /\ perror' = ""
    /\ blog' = <<>>
    /\ binval' = 0
    /\ bstate' = "running"
    /\ bresult' = <<>>
    /\ ptrace' = <<>>
    /\ prequests' = <<>>
    /\ pcalled' = {}
    /\ pfirst' = <<>>
    /\ UNCHANGED <<cookie, crumb, cache, pnow, tmpCookie, handshakes, pexpires>>
    /\ UNCHANGED <<pureVars, storeVars>>

\* fetchBatch's ensureCredentials: the in-memory pair, else the cache, else a refresh
EnsureCredentials ==
    /\ ppc = "ensure"
    /\ LET trace == IF bstate = "returned" THEN <<>> ELSE ptrace
       IN IF cookie # 0 /\ crumb # 0
          THEN /\ ppc' = "data"
               /\ ptrace' = trace
               /\ UNCHANGED <<cookie, crumb, pcalled, pfirst, pexpires>>
          ELSE \E loadThrows \in BOOLEAN :
                 LET cached == IF loadThrows THEN <<>> ELSE cache
                     load == [Event("load", ~loadThrows) EXCEPT
                                 !.record = cache, !.at = pnow]
                 IN /\ ptrace' = Append(trace, load)
                    /\ pcalled' = pcalled \cup {"load"}
                    /\ pfirst' = IF ptrace = <<>> /\ prequests = <<>>
                                 THEN <<load>> ELSE pfirst
                    /\ IF CacheUsable(cached, pnow)
                       THEN /\ cookie' = cached[1].cookie
                            /\ crumb' = cached[1].crumb
                            /\ pexpires' = cached[1].expiresAt
                            /\ ppc' = "data"
                       ELSE /\ ppc' = "cookie"
                            /\ UNCHANGED <<cookie, crumb, pexpires>>
    \* the for loop's next batch: its own count of data calls and invalidations
    /\ IF bstate = "returned"
       THEN /\ pbatches' = Tail(pbatches)
            /\ blog' = <<>> /\ binval' = 0 /\ bstate' = "running" /\ bresult' = <<>>
       ELSE UNCHANGED <<pbatches, blog, binval, bstate, bresult>>
    /\ UNCHANGED <<cache, pnow, isRetry, presults, tmpCookie, handshakes,
                   preturn, perror, pcalls, ptickers, prequests>>
    /\ UNCHANGED <<pureVars, storeVars>>

\* fetchRemoteCredentials, first request: the cookie
RequestCookie ==
    /\ ppc = "cookie"
    /\ \E outcome \in {"cookie", "throws", "no cookie"} :
         IF outcome = "cookie"
         THEN /\ handshakes' = handshakes + 1
              /\ tmpCookie' = handshakes + 1
              /\ ppc' = "crumb"
              /\ ptrace' = Append(ptrace, [Event("cookie", TRUE) EXCEPT
                                              !.cookie = handshakes + 1])
              /\ UNCHANGED <<perror, bstate>>
         ELSE /\ ppc' = "failed"
              /\ bstate' = "threw"
              /\ perror' = IF outcome = "throws"
                           THEN "Failed to request Yahoo Finance cookie"
                           ELSE "Failed to obtain Yahoo Finance cookie"
              /\ ptrace' = Append(ptrace, Event("cookie", FALSE))
              /\ UNCHANGED <<handshakes, tmpCookie>>
    /\ pcalled' = pcalled \cup {"cookie"}
    /\ UNCHANGED <<cookie, crumb, cache, pnow, pbatches, isRetry, presults, blog,
                   binval, bresult, preturn, pcalls, ptickers, prequests, pfirst,
                   pexpires>>
    /\ UNCHANGED <<pureVars, storeVars>>

\* what the fields of a crumb request that returned a crumb look like in ptrace
CrumbEvent(ok) ==
    [Event("crumb", ok) EXCEPT !.cookie = tmpCookie,
                               !.crumb = IF ok THEN tmpCookie ELSE 0]

SaveEvent(ok) ==
    [Event("save", ok) EXCEPT
        !.cookie = tmpCookie, !.crumb = tmpCookie, !.at = pnow,
        !.record = <<[cookie |-> tmpCookie, crumb |-> tmpCookie,
                      expiresAt |-> pnow + CredentialTtl, parsable |-> TRUE]>>]

\* a failure of cache.save fails the call
SaveCredentialsOrThrow ==
    \E saveThrows \in BOOLEAN :
       /\ cache' = IF saveThrows THEN cache ELSE SaveEvent(TRUE).record
       /\ ptrace' = ptrace \o <<CrumbEvent(TRUE), SaveEvent(~saveThrows)>>
       /\ pcalled' = pcalled \cup {"crumb", "save"}
       /\ ppc' = IF saveThrows THEN "failed" ELSE "data"

\* refreshCredentials' cache.save of the pair just obtained, with expiresAt =
\* now + credentialTtlMs; its failure is logged and swallowed
SaveCredentials ==
    \E saveThrows \in BOOLEAN :
       /\ cache' = IF saveThrows THEN cache ELSE SaveEvent(TRUE).record
       /\ ptrace' = ptrace \o <<CrumbEvent(TRUE), SaveEvent(~saveThrows)>>
       /\ pcalled' = pcalled \cup {"crumb", "save"}
       /\ ppc' = "data"

\* fetchRemoteCredentials, second request: the crumb; then refreshCredentials'
\* assignments and its cache.save
RequestCrumb ==
    /\ ppc = "crumb"
    /\ \E outcome \in {"crumb", "throws", "empty"} :
         IF outcome = "crumb"
         THEN /\ cookie' = tmpCookie
              /\ crumb' = tmpCookie
              /\ pexpires' = pnow + CredentialTtl
              /\ SaveCredentials
              /\ UNCHANGED <<perror, bstate>>
         ELSE /\ ppc' = "failed"
              /\ bstate' = "threw"
              /\ perror' = IF outcome = "throws"
                           THEN "Failed to request Yahoo Finance crumb"
                           ELSE "Received empty crumb from Yahoo Finance"
              /\ ptrace' = Append(ptrace, CrumbEvent(FALSE))
              /\ pcalled' = pcalled \cup {"crumb"}
              /\ UNCHANGED <<cookie, crumb, cache, pexpires>>
    /\ tmpCookie' = 0
    /\ UNCHANGED <<pnow, pbatches, isRetry, presults, handshakes, blog, binval,
                   bresult, preturn, pcalls, ptickers, prequests, pfirst>>
    /\ UNCHANGED <<pureVars, storeVars>>

\* the in-memory fields cleared and the cache left alone
ClearMemoryOnly ==
    /\ cookie' = 0
    /\ crumb' = 0
    /\ UNCHANGED <<cache, binval, pcalled>>

\* the cookie cleared and the crumb kept
ClearCookieOnly ==
    /\ cookie' = 0
    /\ UNCHANGED crumb
    /\ \E invalidateThrows \in BOOLEAN :
         cache' = IF invalidateThrows THEN cache ELSE <<>>
    /\ binval' = binval + 1
    /\ pcalled' = pcalled \cup {"invalidate"}

\* invalidateCredentials: both in-memory fields cleared, then cache.invalidate(),
\* whose failure is logged and swallowed
InvalidateCredentials ==
    /\ cookie' = 0
    /\ crumb' = 0
    /\ \E invalidateThrows \in BOOLEAN :
         cache' = IF invalidateThrows THEN cache ELSE <<>>
    /\ binval' = binval + 1
    /\ pcalled' = pcalled \cup {"invalidate"}

\* fetchBatch from the data call on: 401 (invalidateCredentials and the recursive
\* retry, or the terminal error), another failure status, or the parsed payload
\* and fetchQuotes' move to the next batch
DataCall ==
    /\ ppc = "data"
    /\ \E response \in DataResponses(pbatches[1]) :
         /\ blog' = Append(blog, [status |-> response.status,
                                  payload |-> response.payload, at |-> pnow])
         /\ LET data == [Event("data", TRUE) EXCEPT
                             !.cookie = cookie, !.crumb = crumb,
                             !.symbols = pbatches[1], !.status = response.status]
            IN /\ ptrace' = Append(ptrace, data)
               /\ prequests' = Append(prequests, data)
         /\ IF response.status = 401
            THEN IF RetryAfterUnauthorized(isRetry)
                 THEN /\ InvalidateCredentials
                      /\ isRetry' = TRUE
                      /\ ppc' = "ensure"
                      /\ UNCHANGED <<pbatches, presults, bstate, bresult, preturn, perror>>
                 ELSE /\ ppc' = "failed"
                      /\ bstate' = "threw"
                      /\ perror' = "Yahoo Finance authentication failed after retry"
                      /\ UNCHANGED <<cookie, crumb, cache, binval, pcalled, isRetry,
                                     pbatches, presults, bresult, preturn>>
            ELSE IF ~ResponseOk(response.status)
            THEN /\ ppc' = "failed"
                 /\ bstate' = "threw"
                 /\ perror' = "Yahoo Finance request failed with status"
                 /\ UNCHANGED <<cookie, crumb, cache, binval, pcalled, isRetry, pbatches,
                                presults, bresult, preturn>>
            ELSE LET parsed == ParseQuoteResponse(response.payload, pbatches[1], pnow)
                     results == presults \o parsed
                 IN /\ bresult' = parsed
                    /\ bstate' = "returned"
                    /\ presults' = results
                    /\ isRetry' = FALSE
                    /\ IF Len(pbatches) = 1
                       THEN ppc' = "done" /\ preturn' = results
                       ELSE ppc' = "ensure" /\ UNCHANGED preturn
                    /\ UNCHANGED <<cookie, crumb, cache, binval, pcalled, pbatches,
                                   perror>>
    /\ UNCHANGED <<pnow, tmpCookie, handshakes, pcalls, ptickers, pfirst, pexpires>>
    /\ UNCHANGED <<pureVars, storeVars>>

\* the provider's clock advances
ProviderTick ==
    /\ pnow < MaxClock
    /\ pnow' = pnow + 1
    /\ UNCHANGED <<cookie, crumb, cache, ppc, pbatches, isRetry, presults, tmpCookie,
                   handshakes, blog, binval, bstate, bresult, preturn, perror, pcalls,
                   ptickers, ptrace, prequests, pcalled, pfirst, pexpires>>
    /\ UNCHANGED <<pureVars, storeVars>>

\* a later request constructs a new provider: no in-memory credentials
NewProvider ==
    /\ ProviderIdle
    /\ cookie # 0
    /\ cookie' = 0
    /\ crumb' = 0
    /\ UNCHANGED <<cache, pnow, ppc, pbatches, isRetry, presults, tmpCookie,
                   handshakes, blog, binval, bstate, bresult, preturn, perror, pcalls,
                   ptickers, ptrace, prequests, pcalled, pfirst, pexpires>>
    /\ UNCHANGED <<pureVars, storeVars>>

\* the cache slot as a new provider may find it: empty, usable, expired, unparsable
InitialCaches ==
    {<<>>}
    \cup {<<[cookie |-> 100, crumb |-> 100, expiresAt |-> e, parsable |-> ok]>> :
            e \in {0, 1}, ok \in BOOLEAN}

ProviderInit ==
    /\ cookie = 0
    /\ crumb = 0
    /\ cache \in InitialCaches
    /\ pnow = 0
    /\ ppc = "idle"
    /\ pbatches = <<>>
    /\ isRetry = FALSE
    /\ presults = <<>>
    /\ tmpCookie = 0
    /\ handshakes = 0
    /\ blog = <<>>
    /\ binval = 0
    /\ bstate = "running"
    /\ bresult = <<>>
    /\ preturn = <<>>
    /\ perror = ""
    /\ pcalls = 0
    /\ ptickers = <<>>
    /\ ptrace = <<>>
    /\ prequests = <<>>
    /\ pcalled = {}
    /\ pfirst = <<>>
    /\ pexpires = 0

ProviderNext ==
    \/ FetchQuotes
    \/ EnsureCredentials
    \/ RequestCookie
    \/ RequestCrumb
    \/ DataCall
    \/ ProviderTick
    \/ NewProvider

(***************************************************************************)
(* Specifications.                                                         *)
(***************************************************************************)
PureIdle == fn = "none" /\ arg = <<>> /\ res = <<>>

\* the tables right after the migration: no rows
EmptyStore ==
    [portfolios |-> {}, asset_tickers |-> {}, asset_quotes |-> {},
     portfolio_positions |-> {}, portfolio_metrics |-> {}, reference_tickers |-> {}]

NoUpstream == [kind |-> "none", reason |-> "", payload |-> <<>>]

NoBody ==
    [error |-> "", message |-> "",
     processedTickers |-> -1, updatedTickers |-> -1, missingTickers |-> -1,
     stalePortfolios |-> -1,
     processedPortfolios |-> -1, recalculated |-> -1, failed |-> -1,
     fetchedNasdaq |-> -1, fetchedOther |-> -1, upserts |-> -1, deactivated |-> -1]

\* the record of an operation: what it was called with, what it answered, the
\* store it started from
NoOperation ==
    [op |-> "none", method |-> "", pid |-> 0, ticker |-> <<>>, status |-> 0,
     body |-> NoBody, calls |-> <<>>, now |-> 0, before |-> EmptyStore,
     batchSize |-> 0, minFetchIntervalMinutes |-> 0, errorBackoffMinutes |-> 0,
     tickers |-> <<>>, upstream |-> NoUpstream,
     quotes |-> <<>>, storeError |-> "", batch |-> <<>>, done |-> {}, failed |-> {},
     prev |-> <<>>]

StoreInit ==
    /\ store = EmptyStore
    /\ clock = 0
    /\ last = NoOperation
    /\ steps = 0
    /\ recomputed = {}
    /\ inflight = <<>>

StoreIdle == StoreInit

InitProvider == ProviderInit /\ PureIdle /\ StoreIdle

SpecProvider == InitProvider /\ [][ProviderNext]_vars

(***************************************************************************)
(* fetch-prices-batch: partitionTickers.                                   *)
(***************************************************************************)
MaxTickers == 2      \* length of the requested ticker list
MaxQuotes == 2       \* length of the returned quote list

\* returned = new Set(upper-cased quote tickers); two filters over allTickers
PartitionTickers(allTickers, returnedQuotes) ==
    LET returned == {ToUpperCase(returnedQuotes[i].ticker) : i \in DOMAIN returnedQuotes}
    IN [succeeded |-> SelectSeq(allTickers, LAMBDA t : t \in returned),
        missing |-> SelectSeq(allTickers, LAMBDA t : t \notin returned)]

SeqsUpTo(S, n) == UNION {[1..k -> S] : k \in 0..n}

PureTickers == {Str("a"), Str("A"), Str("b"), Str("B")}

PartitionInputs ==
    [allTickers : SeqsUpTo(PureTickers, MaxTickers),
     returnedQuotes : SeqsUpTo([ticker : PureTickers], MaxQuotes)]

InitPartition ==
    /\ fn = "partitionTickers" /\ arg \in PartitionInputs /\ res = <<>>
    /\ ProviderInit /\ cache = <<>> /\ StoreIdle

ApplyPartitionTickers ==
    /\ fn = "partitionTickers"
    /\ res = <<>>
    /\ res' = <<PartitionTickers(arg.allTickers, arg.returnedQuotes)>>
    /\ UNCHANGED <<fn, arg, providerVars, storeVars>>

SpecPartition == InitPartition /\ [][ApplyPartitionTickers]_vars

\* C3: succeeded and missing partition the requested tickers, and a requested
\* ticker is in succeeded exactly when some returned quote carries the same
\* symbol compared case-insensitively, whatever the case of either side.
C3_PartitionCaseInsensitive ==
    res # <<>> =>
      LET succeeded == Range(res[1].succeeded)
          missing == Range(res[1].missing)
          requested == Range(arg.allTickers)
          quotes == arg.returnedQuotes
      IN /\ succeeded \cup missing = requested
         /\ succeeded \cap missing = {}
         /\ \A t \in requested :
              t \in succeeded
              <=> \E i \in DOMAIN quotes : ToUpperCase(quotes[i].ticker) = ToUpperCase(t)

(***************************************************************************)
(* _shared/supabase.ts: readIntFromEnv and the two configurations.         *)
(* A raw setting is <<>> (env.get gave undefined) or <<text>>, the text a  *)
(* sequence of characters.                                                 *)
(***************************************************************************)
MaxRawLen == 4       \* length of a raw setting's text

DEFAULT_BATCH_SIZE == 25
DEFAULT_MIN_FETCH_INTERVAL_MINUTES == 30
DEFAULT_ERROR_BACKOFF_MINUTES == 60
DEFAULT_METRICS_BATCH_SIZE == 50

Digits == <<"0", "1", "2", "3", "4", "5", "6", "7", "8", "9">>

IsDigit(c) == \E i \in DOMAIN Digits : Digits[i] = c

DigitValue(c) == (CHOOSE i \in DOMAIN Digits : Digits[i] = c) - 1

IsWhiteSpace(c) == c = " "

RECURSIVE SkipWhiteSpace(_)
\* parseInt, step 1: leading white space is dropped
SkipWhiteSpace(text) ==
    IF text # <<>> /\ IsWhiteSpace(Head(text)) THEN SkipWhiteSpace(Tail(text)) ELSE text

RECURSIVE LeadingDigits(_)
\* parseInt: the digits up to the first character that is not a radix-10 digit
LeadingDigits(text) ==
    IF text # <<>> /\ IsDigit(Head(text))
    THEN <<Head(text)>> \o LeadingDigits(Tail(text))
    ELSE <<>>

RECURSIVE DecimalValue(_)
DecimalValue(digits) ==
    IF digits = <<>> THEN 0
    ELSE 10 * DecimalValue(SubSeq(digits, 1, Len(digits) - 1))
         + DigitValue(digits[Len(digits)])

\* Number.parseInt(text, 10): <<>> for NaN, <<n>> for the integer n
ParseInt(text) ==
    LET trimmed == SkipWhiteSpace(text)
        signed == trimmed # <<>> /\ Head(trimmed) \in {"-", "+"}
        negative == trimmed # <<>> /\ Head(trimmed) = "-"
        digits == LeadingDigits(IF signed THEN Tail(trimmed) ELSE trimmed)
    IN IF digits = <<>> THEN <<>>
       ELSE <<(IF negative THEN -1 ELSE 1) * DecimalValue(digits)>>

\* the parsed value is returned as it is, neither bound applied
ReadIntNoClamp(raw, fallback, options) ==
    LET parsed == IF raw = <<>> THEN <<>> ELSE ParseInt(raw[1])
    IN IF parsed # <<>> THEN parsed[1] ELSE fallback

\* readIntFromEnv after env.get(key): options.min and options.max are <<>> or <<n>>
ReadIntFromEnv(raw, fallback, options) ==
    LET parsed == IF raw = <<>> THEN <<>> ELSE ParseInt(raw[1])
        value == IF parsed # <<>> THEN parsed[1] ELSE fallback
        atLeast == IF options.min # <<>> THEN Max(options.min[1], value) ELSE value
    IN IF options.max # <<>> THEN Min(options.max[1], atLeast) ELSE atLeast

\* the settings of resolveFetchBatchConfig and resolveMetricsBatchConfig
Settings ==
    {[key |-> "FETCH_BATCH_SIZE", fallback |-> DEFAULT_BATCH_SIZE,
      options |-> [min |-> <<1>>, max |-> <<500>>]],
     [key |-> "FETCH_MIN_FETCH_INTERVAL_MINUTES",
      fallback |-> DEFAULT_MIN_FETCH_INTERVAL_MINUTES,
      options |-> [min |-> <<1>>, max |-> <<24 * 60>>]],
     [key |-> "FETCH_ERROR_BACKOFF_MINUTES", fallback |-> DEFAULT_ERROR_BACKOFF_MINUTES,
      options |-> [min |-> <<1>>, max |-> <<24 * 60>>]],
     [key |-> "METRICS_BATCH_SIZE", fallback |-> DEFAULT_METRICS_BATCH_SIZE,
      options |-> [min |-> <<1>>, max |-> <<500>>]]}

RawChars == {"0", "1", "-", " ", "x"}

RawValues == {<<>>} \cup {<<text>> : text \in SeqsUpTo(RawChars, MaxRawLen)}

InitConfig ==
    /\ fn = "readIntFromEnv"
    /\ arg \in [setting : Settings, raw : RawValues]
    /\ res = <<>>
    /\ ProviderInit /\ cache = <<>> /\ StoreIdle

ApplyReadIntFromEnv ==
    /\ fn = "readIntFromEnv"
    /\ res = <<>>
    /\ res' = <<ReadIntFromEnv(arg.raw, arg.setting.fallback, arg.setting.options)>>
    /\ UNCHANGED <<fn, arg, providerVars, storeVars>>

SpecConfig == InitConfig /\ [][ApplyReadIntFromEnv]_vars

\* the text spells an integer and nothing else: an optional sign, then digits
IsIntegerText(text) ==
    LET body == IF text # <<>> /\ text[1] \in {"-", "+"} THEN Tail(text) ELSE text
    IN body # <<>> /\ \A i \in DOMAIN body : IsDigit(body[i])

\* the integer such a text spells
IntegerOf(text) ==
    IF text[1] = "-" THEN -DecimalValue(Tail(text))
    ELSE IF text[1] = "+" THEN DecimalValue(Tail(text))
    ELSE DecimalValue(text)

Clamp(n, lo, hi) == IF n < lo THEN lo ELSE IF n > hi THEN hi ELSE n

\* C5 as stated: the resolved value lies in [min, max]; a raw value that is an
\* integer resolves to that integer clamped; an unset or non-numeric raw value
\* resolves to the default.
C5_Original ==
    res # <<>> =>
      LET lo == arg.setting.options.min[1]
          hi == arg.setting.options.max[1]
      IN /\ lo <= res[1] /\ res[1] <= hi
         /\ IF arg.raw # <<>> /\ IsIntegerText(arg.raw[1])
            THEN res[1] = Clamp(IntegerOf(arg.raw[1]), lo, hi)
            ELSE res[1] = arg.setting.fallback

\* C5 as amended: the resolved value lies in [min, max]; a raw value that begins,
\* after leading white space, with an optionally signed run of digits resolves
\* to the integer that run spells, clamped, whatever follows the run; any other
\* raw value, and an unset one, resolves to the default.
C5_ClampLeadingInteger ==
    res # <<>> =>
      LET lo == arg.setting.options.min[1]
          hi == arg.setting.options.max[1]
          text == IF arg.raw = <<>> THEN <<>> ELSE arg.raw[1]
          \* text = white space, then text[from..to] an integer text that no digit follows
          Leads(from, to) ==
              /\ \A i \in 1..(from - 1) : IsWhiteSpace(text[i])
              /\ IsIntegerText(SubSeq(text, from, to))
              /\ to < Len(text) => ~IsDigit(text[to + 1])
          runs == {r \in (DOMAIN text) \X (DOMAIN text) : Leads(r[1], r[2])}
      IN /\ lo <= res[1] /\ res[1] <= hi
         /\ \A r \in runs : res[1] = Clamp(IntegerOf(SubSeq(text, r[1], r[2])), lo, hi)
         /\ runs = {} => res[1] = arg.setting.fallback

C5_Witness ==
    /\ fn = "readIntFromEnv"
    /\ res # <<>>
    /\ arg.setting.key = "FETCH_BATCH_SIZE"
    /\ arg.raw = <<<<"1", "0", "0", "0">>>>
    /\ res[1] = 500

(***************************************************************************)
(* recalc-metrics-batch: calculatePortfolioMetrics.                        *)
(* A number is an exact decimal [n, d], the value n / 10^d, kept with the  *)
(* fewest decimals.  The quantities, prices and sums of the model are far  *)
(* from the limits of a double, whose error on them is many orders below   *)
(* the sixth decimal, and no sum of the model lies half-way between two    *)
(* six-decimal values.                                                     *)
(***************************************************************************)
MaxPositions == 2    \* positions of a portfolio
MaxQuoteRows == 2    \* quote rows passed to calculatePortfolioMetrics

RECURSIVE Pow10(_)
Pow10(k) == IF k = 0 THEN 1 ELSE 10 * Pow10(k - 1)

Abs(n) == IF n < 0 THEN -n ELSE n

RECURSIVE DecNorm(_)
DecNorm(x) ==
    IF x.n = 0 THEN [n |-> 0, d |-> 0]
    ELSE IF x.d > 0 /\ x.n % 10 = 0 THEN DecNorm([n |-> x.n \div 10, d |-> x.d - 1])
    ELSE x

Dec(n, d) == DecNorm([n |-> n, d |-> d])

DecAdd(x, y) ==
    LET d == Max(x.d, y.d)
    IN Dec(x.n * Pow10(d - x.d) + y.n * Pow10(d - y.d), d)

DecSub(x, y) == DecAdd(x, [n |-> -y.n, d |-> y.d])

DecMul(x, y) == Dec(x.n * y.n, x.d + y.d)

DecLeq(x, y) == DecSub(y, x).n >= 0

DecAbs(x) == [n |-> Abs(x.n), d |-> x.d]

\* Number(x.toFixed(6)): the nearest value with six decimals, a tie away from zero
ToFixed6(x) ==
    IF x.d <= 6 THEN x
    ELSE LET p == Pow10(x.d - 6)
             q == (Abs(x.n) + (p \div 2)) \div p
         IN Dec(IF x.n < 0 THEN -q ELSE q, 6)


\* a JSON value of type number | string | null
NumberValue(n, d) == [k |-> "number", num |-> Dec(n, d), text |-> <<>>]
TextValue(text) == [k |-> "string", num |-> Dec(0, 0), text |-> text]
NullValue == [k |-> "null", num |-> Dec(0, 0), text |-> <<>>]

\* toNumber: a number as it is; Number(text), 0 when that is NaN.  For texts of
\* digits and letters: Number("") is 0, a digit string its value, any other NaN.
ToNumber(value) ==
    IF value.k = "number" THEN value.num
    ELSE IF \A i \in DOMAIN value.text : IsDigit(value.text[i])
    THEN Dec(DecimalValue(value.text), 0)
    ELSE Dec(0, 0)

RECURSIVE PriceMap(_)
\* new Map(quotes.map(...)): the keys in insertion order, a repeated key keeps
\* its place and takes the later value
PriceMap(quotes) ==
    IF quotes = <<>> THEN <<>>
    ELSE LET quote == quotes[Len(quotes)]
             key == ToUpperCase(quote.ticker)
             item == [key |-> key, price |-> quote.last_price]
         IN With(PriceMap(SubSeq(quotes, 1, Len(quotes) - 1)), LAMBDA init :
              IF \E i \in DOMAIN init : init[i].key = key
              THEN [i \in DOMAIN init |-> IF init[i].key = key THEN item ELSE init[i]]
              ELSE Append(init, item))

\* priceMap.get(ticker): <<>> for undefined, else <<the stored price or null>>
PriceMapGet(map, ticker) ==
    IF \E i \in DOMAIN map : map[i].key = ticker
    THEN <<map[CHOOSE i \in DOMAIN map : map[i].key = ticker].price>>
    ELSE <<>>

\* the cost is added only on the branch that found a price
AddPositionCostWhenQuoted(acc, position, map) ==
    LET quantity == ToNumber(position.quantity)
        costBasisPerShare ==
            IF position.cost_basis.k = "null" THEN Dec(0, 0)
            ELSE ToNumber(position.cost_basis)
        price == PriceMapGet(map, ToUpperCase(position.ticker))
    IN IF price = <<>> \/ price[1].k = "null"
       THEN [acc EXCEPT !.missingQuotes = @ + 1]
       ELSE [acc EXCEPT !.totalValue = DecAdd(@, DecMul(quantity, ToNumber(price[1]))),
                        !.totalCost = DecAdd(@, DecMul(quantity, costBasisPerShare))]

\* one turn of the loop over the positions
AddPosition(acc, position, map) ==
    LET quantity == ToNumber(position.quantity)
        costBasisPerShare ==
            IF position.cost_basis.k = "null" THEN Dec(0, 0)
            ELSE ToNumber(position.cost_basis)
        price == PriceMapGet(map, ToUpperCase(position.ticker))
        valued ==
            IF price = <<>> \/ price[1].k = "null"
            THEN [acc EXCEPT !.missingQuotes = @ + 1]
            ELSE [acc EXCEPT !.totalValue =
                                 DecAdd(@, DecMul(quantity, ToNumber(price[1])))]
    IN [valued EXCEPT !.totalCost = DecAdd(@, DecMul(quantity, costBasisPerShare))]

RECURSIVE MetricsLoop(_, _)
MetricsLoop(positions, map) ==
    IF positions = <<>>
    THEN [totalValue |-> Dec(0, 0), totalCost |-> Dec(0, 0), missingQuotes |-> 0]
    ELSE AddPosition(MetricsLoop(SubSeq(positions, 1, Len(positions) - 1), map),
                     positions[Len(positions)], map)

CalculatePortfolioMetrics(positions, quotes) ==
    With(PriceMap(quotes), LAMBDA priceMap :
      With(MetricsLoop(positions, priceMap), LAMBDA acc :
        LET unrealized == DecSub(acc.totalValue, acc.totalCost)
        IN [total_value |-> ToFixed6(acc.totalValue),
            total_cost_basis |-> ToFixed6(acc.totalCost),
            unrealized_gain |-> ToFixed6(unrealized),
            position_count |-> Len(positions),
            positions_missing_quotes |-> acc.missingQuotes]))

\* the positions and quotes of the unit test
TestPositions ==
    <<[ticker |-> <<"A", "A", "P", "L">>, quantity |-> NumberValue(2, 0),
       cost_basis |-> NumberValue(100, 0)],
      [ticker |-> <<"M", "S", "F", "T">>, quantity |-> TextValue(<<"3">>),
       cost_basis |-> TextValue(<<"1", "5", "0">>)],
      [ticker |-> <<"G", "O", "O", "G">>, quantity |-> NumberValue(1, 0),
       cost_basis |-> NullValue]>>
TestQuotes ==
    <<[ticker |-> <<"A", "A", "P", "L">>, last_price |-> NumberValue(200, 0)],
      [ticker |-> <<"M", "S", "F", "T">>, last_price |-> TextValue(<<"1", "2", "0">>)]>>

\* rows with quantities of 0.001 and "2", costs of null and 0.0002 a share,
\* prices of null, 0.0006 and a text that spells no number
PositionRows ==
    {[ticker |-> Str("A"), quantity |-> NumberValue(1, 3), cost_basis |-> NumberValue(2, 4)],
     [ticker |-> Str("a"), quantity |-> NumberValue(1, 3), cost_basis |-> NullValue],
     [ticker |-> Str("a"), quantity |-> TextValue(<<"2">>), cost_basis |-> NumberValue(2, 4)],
     [ticker |-> Str("A"), quantity |-> TextValue(<<"2">>), cost_basis |-> NullValue]}
QuoteRows ==
    {[ticker |-> Str("A"), last_price |-> NumberValue(6, 4)],
     [ticker |-> Str("A"), last_price |-> NullValue],
     [ticker |-> Str("A"), last_price |-> TextValue(<<"x">>)],
     [ticker |-> Str("b"), last_price |-> NumberValue(6, 4)]}

MetricsInputs ==
    [positions : SeqsUpTo(PositionRows, MaxPositions),
     quotes : SeqsUpTo(QuoteRows, MaxQuoteRows)]
    \cup {[positions |-> TestPositions, quotes |-> TestQuotes]}

InitMetrics ==
    /\ fn = "calculatePortfolioMetrics" /\ arg \in MetricsInputs /\ res = <<>>
    /\ ProviderInit /\ cache = <<>> /\ StoreIdle

ApplyCalculatePortfolioMetrics ==
    /\ fn = "calculatePortfolioMetrics"
    /\ res = <<>>
    /\ res' = <<CalculatePortfolioMetrics(arg.positions, arg.quotes)>>
    /\ UNCHANGED <<fn, arg, providerVars, storeVars>>

SpecMetrics == InitMetrics /\ [][ApplyCalculatePortfolioMetrics]_vars

\* the price a position is valued at: that of the last quote row carrying its
\* symbol (case-insensitively), <<>> if there is none or its price is null
UsablePrice(position, quotes) ==
    LET rows == {j \in DOMAIN quotes :
                   ToUpperCase(quotes[j].ticker) = ToUpperCase(position.ticker)}
        row == CHOOSE j \in rows : \A k \in rows : k <= j
    IN IF rows = {} \/ quotes[row].last_price.k = "null" THEN <<>>
       ELSE <<ToNumber(quotes[row].last_price)>>

RECURSIVE SumSeq(_)
\* the sum of a sequence of numbers
SumSeq(terms) ==
    IF terms = <<>> THEN Dec(0, 0)
    ELSE DecAdd(terms[1], SumSeq(Tail(terms)))

ExactValue(positions, quotes) ==
    SumSeq([i \in DOMAIN positions |->
              IF UsablePrice(positions[i], quotes) = <<>> THEN Dec(0, 0)
              ELSE DecMul(ToNumber(positions[i].quantity),
                          UsablePrice(positions[i], quotes)[1])])

ExactCost(positions) ==
    SumSeq([i \in DOMAIN positions |->
              IF positions[i].cost_basis.k = "null" THEN Dec(0, 0)
              ELSE DecMul(ToNumber(positions[i].quantity),
                          ToNumber(positions[i].cost_basis))])

MissingQuotes(positions, quotes) ==
    Cardinality({i \in DOMAIN positions : UsablePrice(positions[i], quotes) = <<>>})

\* r is x rounded to six decimals, a tie going away from zero
IsRounded6(r, x) ==
    LET twice == DecMul(Dec(2, 0), DecAbs(DecSub(r, x)))
    IN /\ r.d <= 6
       /\ DecLeq(twice, Dec(1, 6))
       /\ twice = Dec(1, 6) => DecLeq(DecAbs(x), DecAbs(r))

TestExampleResult ==
    (arg.positions = TestPositions /\ arg.quotes = TestQuotes)
    => res[1] = [total_value |-> Dec(760, 0), total_cost_basis |-> Dec(650, 0),
                 unrealized_gain |-> Dec(110, 0), position_count |-> 3,
                 positions_missing_quotes |-> 1]

\* C4 as stated: total_value is the sum of quantity * price over the positions
\* with a usable quote, total_cost_basis the sum of quantity * cost_basis over
\* all positions (null as 0), unrealized_gain = total_value - total_cost_basis,
\* the two counts, and 760, 650, 110, 3, 1 for the test's input.
C4_Original ==
    res # <<>> =>
      /\ res[1].total_value = ExactValue(arg.positions, arg.quotes)
      /\ res[1].total_cost_basis = ExactCost(arg.positions)
      /\ res[1].unrealized_gain = DecSub(res[1].total_value, res[1].total_cost_basis)
      /\ res[1].position_count = Len(arg.positions)
      /\ res[1].positions_missing_quotes = MissingQuotes(arg.positions, arg.quotes)
      /\ TestExampleResult

\* C4 as amended: each total is the exact amount rounded to six decimals, the
\* gain being the rounding of the exact difference of the two sums (not the
\* difference of the two rounded totals); the counts are exact; the test's
\* input gives 760, 650, 110, 3, 1.
C4_RoundedTotals ==
    res # <<>> =>
      LET value == ExactValue(arg.positions, arg.quotes)
          cost == ExactCost(arg.positions)
      IN /\ IsRounded6(res[1].total_value, value)
         /\ IsRounded6(res[1].total_cost_basis, cost)
         /\ IsRounded6(res[1].unrealized_gain, DecSub(value, cost))
         /\ res[1].position_count = Len(arg.positions)
         /\ res[1].positions_missing_quotes = MissingQuotes(arg.positions, arg.quotes)
         /\ TestExampleResult

C4_Witness ==
    /\ fn = "calculatePortfolioMetrics"
    /\ arg.positions = TestPositions
    /\ arg.quotes = TestQuotes
    /\ res # <<>>
    /\ res[1].total_value = Dec(760, 0)
    /\ res[1].positions_missing_quotes = 1

(***************************************************************************)
(* sync-reference-tickers: mergeDirectoryTickers.                          *)
(***************************************************************************)
MaxListLen == 2      \* length of one directory list

RECURSIVE Concat(_)
\* the lists in priority order, one after the other
Concat(lists) == IF lists = <<>> THEN <<>> ELSE Head(lists) \o Concat(Tail(lists))

RECURSIVE MergeInto(_, _)
\* the Map after the entries were offered in order; a Map keeps insertion order,
\* and map.set happens only when the ticker is not yet a key
MergeInto(map, entries) ==
    IF entries = <<>> THEN map
    ELSE LET entry == Head(entries)
             has == \E i \in DOMAIN map : map[i].ticker = entry.ticker
         IN MergeInto(IF has THEN map ELSE Append(map, entry), Tail(entries))

RECURSIVE MergeLastWins(_, _)
\* map.set on every entry: a later entry replaces the earlier one's value
MergeLastWins(map, entries) ==
    IF entries = <<>> THEN map
    ELSE LET entry == Head(entries)
             has == \E i \in DOMAIN map : map[i].ticker = entry.ticker
         IN MergeLastWins(
              IF has
              THEN [i \in DOMAIN map |->
                      IF map[i].ticker = entry.ticker THEN entry ELSE map[i]]
              ELSE Append(map, entry),
              Tail(entries))

MergeAllLastWins(lists) == MergeLastWins(<<>>, Concat(lists))

\* for (const list of lists) for (const entry of list) ...; Array.from(map.values())
MergeDirectoryTickers(lists) == MergeInto(<<>>, Concat(lists))

DirectoryEntries ==
    {[ticker |-> Str("A"), name |-> "Apple Inc.", source |-> "nasdaq_directory"],
     [ticker |-> Str("A"), name |-> "Apple Replacement", source |-> "otherlisted_directory"],
     [ticker |-> Str("B"), name |-> "Beta Corp.", source |-> "nasdaq_directory"],
     [ticker |-> Str("B"), name |-> "Beta Replacement", source |-> "otherlisted_directory"]}

MergeInputs ==
    {<<a, b>> : a \in SeqsUpTo(DirectoryEntries, MaxListLen),
                b \in SeqsUpTo(DirectoryEntries, MaxListLen)}
    \cup {<<a, b, c>> : a \in SeqsUpTo(DirectoryEntries, 1),
                        b \in SeqsUpTo(DirectoryEntries, 1),
                        c \in SeqsUpTo(DirectoryEntries, 1)}

InitMerge ==
    /\ fn = "mergeDirectoryTickers" /\ arg \in MergeInputs /\ res = <<>>
    /\ ProviderInit /\ cache = <<>> /\ StoreIdle

ApplyMergeDirectoryTickers ==
    /\ fn = "mergeDirectoryTickers"
    /\ res = <<>>
    /\ res' = <<MergeDirectoryTickers(arg)>>
    /\ UNCHANGED <<fn, arg, providerVars, storeVars>>

SpecMerge == InitMerge /\ [][ApplyMergeDirectoryTickers]_vars

\* C6: the merged list holds exactly one entry per distinct symbol of the input
\* lists, and that entry is the symbol's first occurrence in list-priority order.
C6_MergeFirstWins ==
    res # <<>> =>
      LET merged == res[1]
          all == Concat(arg)
          First(sym) == all[CHOOSE i \in DOMAIN all :
                              /\ all[i].ticker = sym
                              /\ \A j \in 1..(i - 1) : all[j].ticker # sym]
      IN /\ {merged[i].ticker : i \in DOMAIN merged} = {all[i].ticker : i \in DOMAIN all}
         /\ \A i, j \in DOMAIN merged : merged[i].ticker = merged[j].ticker => i = j
         /\ \A i \in DOMAIN merged : merged[i] = First(merged[i].ticker)

C6_Witness ==
    /\ fn = "mergeDirectoryTickers"
    /\ res # <<>>
    /\ Len(arg) = 2 /\ Len(arg[1]) = 1 /\ Len(arg[2]) = 1
    /\ arg[1][1].ticker = arg[2][1].ticker
    /\ arg[1][1].source = "nasdaq_directory"
    /\ arg[2][1].source = "otherlisted_directory"
    /\ arg[1][1].name # arg[2][1].name
    /\ res[1] = <<arg[1][1]>>

(***************************************************************************)
(* handlePortfolioPositionsRequest applied to drawn requests: the calls it *)
(* makes to the auth service and to the repo, in order, and its answer.    *)
(***************************************************************************)
MaxTickerText == 2   \* length of the ticker text of a request body

RECURSIVE DropTrailingWhiteSpace(_)
DropTrailingWhiteSpace(text) ==
    IF text # <<>> /\ IsWhiteSpace(text[Len(text)])
    THEN DropTrailingWhiteSpace(SubSeq(text, 1, Len(text) - 1))
    ELSE text

\* String.prototype.trim
Trim(text) == DropTrailingWhiteSpace(SkipWhiteSpace(text))

\* rawTicker.trim().toUpperCase()
NormalizeTicker(rawTicker) == ToUpperCase(Trim(rawTicker))

\* /^[A-Z0-9.\-]{1,12}$/
MatchesTickerPattern(ticker) ==
    /\ Len(ticker) >= 1
    /\ Len(ticker) <= 12
    /\ \A i \in DOMAIN ticker :
          \/ \E j \in DOMAIN UpperChars : UpperChars[j] = ticker[i]
          \/ IsDigit(ticker[i])
          \/ ticker[i] \in {".", "-"}

Rejected(status, message) == [ok |-> FALSE, status |-> status, message |-> message]

\* the checks parseUpsertBody and parseRemoveBody share: portfolioId, ticker
ParseRemoveBody(body) ==
    IF body.portfolioId # "uuid"
    THEN Rejected(400, "portfolioId must be a valid UUID string")
    ELSE IF body.ticker = <<>> \/ Trim(body.ticker[1]) = <<>>
    THEN Rejected(400, "ticker must be a non-empty string")
    ELSE IF ~MatchesTickerPattern(NormalizeTicker(body.ticker[1]))
    THEN Rejected(400, "ticker may only include letters, numbers, dots, or dashes")
    ELSE [ok |-> TRUE, status |-> 0, message |-> "",
          portfolioId |-> body.portfolioId, ticker |-> NormalizeTicker(body.ticker[1])]

ParseUpsertBody(body) ==
    IF body.portfolioId # "uuid"
    THEN Rejected(400, "portfolioId must be a valid UUID string")
    ELSE IF body.ticker = <<>> \/ Trim(body.ticker[1]) = <<>>
    THEN Rejected(400, "ticker must be a non-empty string")
    ELSE IF body.quantity.k # "num" \/ body.quantity.v <= 0
    THEN Rejected(400, "quantity must be a number greater than 0")
    ELSE IF body.costBasis.k # "absent" /\ (body.costBasis.k # "num" \/ body.costBasis.v < 0)
    THEN Rejected(400, "costBasis must be a non-negative number")
    ELSE IF body.notes = "number"
    THEN Rejected(400, "notes must be a string when provided")
    ELSE IF body.notes = "long"
    THEN Rejected(400, "notes must be 512 characters or fewer")
    ELSE IF ~MatchesTickerPattern(NormalizeTicker(body.ticker[1]))
    THEN Rejected(400, "ticker may only include letters, numbers, dots, or dashes")
    ELSE [ok |-> TRUE, status |-> 0, message |-> "",
          portfolioId |-> body.portfolioId, ticker |-> NormalizeTicker(body.ticker[1])]

\* the ownership check lets every caller through
OwnershipNeverThrows(owner, userId) == FALSE

\* ensurePortfolioOwnership: no portfolios row with this id and owner_id = userId
OwnershipThrows(owner, userId) == owner # userId

RepoCall(name, portfolioId, userId, ticker) ==
    [c |-> name, portfolioId |-> portfolioId, userId |-> userId, ticker |-> ticker]

Answer(status, calls) == [status |-> status, calls |-> calls]

\* the POST and DELETE branches after resolveUserId returned userId
HandleWrite(request, userId, parsed, write, done) ==
    LET resolved == <<RepoCall("resolveUserId", "", "", <<>>)>>
        ensured == Append(resolved,
                          RepoCall("ensurePortfolioOwnership", parsed.portfolioId, userId, <<>>))
        written == Append(ensured, RepoCall(write, parsed.portfolioId, "", parsed.ticker))
    IN IF ~request.parsable THEN Answer(400, resolved)
       ELSE IF ~parsed.ok THEN Answer(parsed.status, resolved)
       ELSE IF OwnershipThrows(request.owner, userId) THEN Answer(404, ensured)
       ELSE IF request.repoStatus # 0 THEN Answer(request.repoStatus, written)
       ELSE Answer(done, written)

HandlePortfolioPositionsRequest(request) ==
    LET resolved == <<RepoCall("resolveUserId", "", "", <<>>)>>
    IN IF ~request.clientOk THEN Answer(500, <<>>)
       ELSE IF request.auth = <<>> THEN Answer(401, resolved)
       ELSE IF request.method = "POST"
       THEN HandleWrite(request, request.auth[1], ParseUpsertBody(request.body),
                        "upsertPosition", 201)
       ELSE IF request.method = "DELETE"
       THEN HandleWrite(request, request.auth[1], ParseRemoveBody(request.body),
                        "deletePosition", 200)
       ELSE Answer(405, resolved)

TickerTextChars == {"a", "A", " ", "!"}

PositionBodies ==
    [portfolioId : {"uuid", "text"},
     ticker : {<<>>} \cup {<<text>> : text \in SeqsUpTo(TickerTextChars, MaxTickerText)},
     quantity : {Num(1), Num(0), Absent},
     costBasis : {Absent, Num(-1)},
     notes : {"absent", "long"}]

\* a request: how the client and the auth service answer, who owns the
\* portfolio, and the status of the repo's error when its write fails
PositionRequests ==
    [method : {"GET", "POST", "DELETE"}, clientOk : BOOLEAN, auth : {<<>>, <<"user-1">>},
     parsable : BOOLEAN, body : PositionBodies, owner : {"user-1", "user-2"},
     repoStatus : {0, 500}]

InitPositions ==
    /\ fn = "handlePortfolioPositionsRequest" /\ arg \in PositionRequests /\ res = <<>>
    /\ ProviderInit /\ cache = <<>> /\ StoreIdle

ApplyHandlePortfolioPositionsRequest ==
    /\ fn = "handlePortfolioPositionsRequest"
    /\ res = <<>>
    /\ res' = <<HandlePortfolioPositionsRequest(arg)>>
    /\ UNCHANGED <<fn, arg, providerVars, storeVars>>

SpecPositions == InitPositions /\ [][ApplyHandlePortfolioPositionsRequest]_vars

PositionsAnswered == fn = "handlePortfolioPositionsRequest" /\ res # <<>>

\* the positions in the calls of the answer at which the repo was told to write
WriteCalls ==
    {i \in DOMAIN res[1].calls : res[1].calls[i].c \in {"upsertPosition", "deletePosition"}}

\* the text without the white space around it, in upper case
IsTrimmedUpperCaseOf(ticker, raw) ==
    /\ ticker # <<>>
    /\ ~IsWhiteSpace(ticker[1])
    /\ ~IsWhiteSpace(ticker[Len(ticker)])
    /\ \E i \in 0..Len(raw) :
          /\ i + Len(ticker) <= Len(raw)
          /\ \A k \in 1..Len(raw) :
                IF k > i /\ k <= i + Len(ticker)
                THEN ticker[k - i] = UpperChar(raw[k])
                ELSE IsWhiteSpace(raw[k])

\* C36: the repo is told to upsert or delete only as the third call, after
\* resolveUserId returned a user id and ensurePortfolioOwnership succeeded for
\* that user and the portfolio of a body that passed validation; a request
\* answered 401, 400 or 405, or one whose portfolio another user owns, makes
\* no such call; and the ticker handed to the repo is the body's ticker
\* trimmed and upper-cased.
C36_WritesAfterAuthValidationOwnership ==
    PositionsAnswered =>
       /\ \A i \in WriteCalls :
             /\ i = 3
             /\ res[1].calls[1].c = "resolveUserId"
             /\ arg.auth # <<>>
             /\ res[1].calls[2] =
                   RepoCall("ensurePortfolioOwnership", arg.body.portfolioId, arg.auth[1], <<>>)
             /\ arg.owner = arg.auth[1]
             /\ arg.parsable
             /\ arg.body.portfolioId = "uuid"
             /\ arg.body.ticker # <<>>
             /\ res[1].calls[i].portfolioId = arg.body.portfolioId
             /\ IsTrimmedUpperCaseOf(res[1].calls[i].ticker, arg.body.ticker[1])
             /\ res[1].calls[i].c = "upsertPosition" =>
                   arg.method = "POST" /\ arg.body.quantity.k = "num" /\ arg.body.quantity.v > 0
             /\ res[1].calls[i].c = "deletePosition" => arg.method = "DELETE"
       /\ res[1].status \in {400, 401, 405} => WriteCalls = {}
       /\ arg.auth = <<>> \/ arg.owner # arg.auth[1] => WriteCalls = {}
       /\ arg.auth = <<>> /\ arg.clientOk => res[1].status = 401

\* an upsert reached the repo with the ticker " a" as "A"
C36_Witness ==
    /\ PositionsAnswered
    /\ res[1].status = 201
    /\ arg.body.ticker = <<<<" ", "a">>>>
    /\ res[1].calls[3] = RepoCall("upsertPosition", "uuid", "", Str("A"))

(***************************************************************************)
(* parseNasdaqDirectory and parseOtherListedDirectory applied to drawn     *)
(* rows, a row being the fields of one line after parsePipeFile.           *)
(***************************************************************************)
OTHER_EXCHANGE_MAP ==
    [code \in {"A", "B", "N", "P", "Z", "V"} |->
        CASE code = "A" -> "NYSE MKT"
          [] code = "B" -> "NASDAQ BX"
          [] code = "N" -> "NYSE"
          [] code = "P" -> "NYSE ARCA"
          [] code = "Z" -> "Cboe BZX"
          [] code = "V" -> "IEX"]

MapOtherExchange(code) ==
    IF code = "" THEN "UNKNOWN"
    ELSE IF code \in DOMAIN OTHER_EXCHANGE_MAP THEN OTHER_EXCHANGE_MAP[code] ELSE code

ReferenceTicker(ticker, name, exchange, etfFlag, source) ==
    [ticker |-> ticker, name |-> name, exchange |-> exchange,
     asset_type |-> IF etfFlag = "Y" THEN "ETF" ELSE "EQUITY",
     is_etf |-> etfFlag = "Y", source |-> source]

RECURSIVE ParseNasdaqDirectory(_)
ParseNasdaqDirectory(rows) ==
    IF rows = <<>> THEN <<>>
    ELSE LET row == Head(rows)
             ticker == ToUpperCase(Trim(row.symbol))
             rest == ParseNasdaqDirectory(Tail(rows))
         IN IF row.symbol = <<>> \/ row.symbol = Str("Symbol") THEN rest
            ELSE IF row.testIssue = "Y" \/ row.nextSharesFlag = "Y" THEN rest
            ELSE IF ticker = <<>> THEN rest
            ELSE <<ReferenceTicker(ticker, row.securityName, "NASDAQ", row.etfFlag,
                                   "nasdaq_directory")>> \o rest

RECURSIVE ParseOtherListedDirectory(_)
ParseOtherListedDirectory(rows) ==
    IF rows = <<>> THEN <<>>
    ELSE LET row == Head(rows)
             symbol == IF row.actSymbol # <<>> THEN row.actSymbol
                       ELSE IF row.cqsSymbol # <<>> THEN row.cqsSymbol
                       ELSE row.nasdaqSymbol
             ticker == ToUpperCase(Trim(symbol))
             rest == ParseOtherListedDirectory(Tail(rows))
         IN IF row.actSymbol = <<>> \/ row.actSymbol = Str("ACT Symbol") THEN rest
            ELSE IF row.testIssue = "Y" THEN rest
            ELSE IF ticker = <<>> THEN rest
            ELSE <<ReferenceTicker(ticker, row.securityName, MapOtherExchange(row.exchangeCode),
                                   row.etfFlag, "otherlisted_directory")>> \o rest

\* the Round Lot Size field of a row: 100 or 1
RoundLotTexts == {<<"1", "0", "0">>, <<"1">>}

NasdaqRows ==
    [symbol : {Str("a"), <<" ", "B">>, <<>>, Str("Symbol")},
     securityName : {"Apple Inc."}, testIssue : {"N", "Y"},
     roundLotSize : RoundLotTexts, etfFlag : {"N", "Y"}, nextSharesFlag : {"N", "Y"}]

OtherRows ==
    [actSymbol : {Str("a"), <<>>, Str("ACT Symbol")}, securityName : {"Beta Corp."},
     exchangeCode : {"N", "X", ""}, cqsSymbol : {Str("b")}, etfFlag : {"N", "Y"},
     roundLotSize : RoundLotTexts, testIssue : {"N", "Y"}, nasdaqSymbol : {<<>>}]

DirectoryInputs ==
    [parser : {"parseNasdaqDirectory"}, rows : SeqsUpTo(NasdaqRows, MaxListLen)]
    \cup [parser : {"parseOtherListedDirectory"}, rows : SeqsUpTo(OtherRows, MaxListLen)]

InitDirectory ==
    /\ fn = "parseDirectory" /\ arg \in DirectoryInputs /\ res = <<>>
    /\ ProviderInit /\ cache = <<>> /\ StoreIdle

ApplyParseDirectory ==
    /\ fn = "parseDirectory"
    /\ res = <<>>
    /\ res' = <<IF arg.parser = "parseNasdaqDirectory"
                THEN ParseNasdaqDirectory(arg.rows)
                ELSE ParseOtherListedDirectory(arg.rows)>>
    /\ UNCHANGED <<fn, arg, providerVars, storeVars>>

SpecDirectory == InitDirectory /\ [][ApplyParseDirectory]_vars

\* the rows of the input an entry can come from: the same symbol, trimmed and
\* upper-cased
RowsOf(entry) ==
    {i \in DOMAIN arg.rows :
        IF arg.parser = "parseNasdaqDirectory"
        THEN ToUpperCase(Trim(arg.rows[i].symbol)) = entry.ticker
        ELSE ToUpperCase(Trim(arg.rows[i].actSymbol)) = entry.ticker}

\* C37: every entry the two parsers return has a data field, and its
\* roundLotSize is the Round Lot Size of the entry's feed row as a number.
C37_EntriesCarryRoundLot ==
    fn = "parseDirectory" /\ res # <<>> =>
       \A k \in DOMAIN res[1] :
          /\ "data" \in DOMAIN res[1][k]
          /\ \E i \in RowsOf(res[1][k]) :
                res[1][k].data.roundLotSize = DecimalValue(arg.rows[i].roundLotSize)

(***************************************************************************)
(* The durable store: tables of the migration as sets of rows, its         *)
(* triggers and its two selection functions.  Every timestamp is a value   *)
(* of the one clock, in minutes.                                           *)
(***************************************************************************)
MaxSteps == 4        \* operations on the store per behaviour
MaxBatch == 2        \* largest batchSize a run is configured with

PortfolioIds == {1, 2}
Epoch == -1          \* '1970-01-01', before every value of the clock

RECURSIVE SetToSeq(_)
\* the rows of a result set in the order the store returns them
SetToSeq(S) ==
    IF S = {} THEN <<>>
    ELSE LET x == CHOOSE y \in S : TRUE IN <<x>> \o SetToSeq(S \ {x})

\* trigger portfolio_positions_ensure_ticker (the ticker already upper-cased)
EnsureAssetTickerExists(st, ticker) ==
    IF \E r \in st.asset_tickers : r.ticker = ticker THEN st
    ELSE [st EXCEPT !.asset_tickers =
            @ \cup {[ticker |-> ticker, status |-> "active", last_fetched_at |-> <<>>,
                     last_fetch_error |-> <<>>, retry_after |-> <<>>]}]

\* trigger portfolio_positions_mark_metrics_stale
MarkMetricsStaleFromPositions(st, target_portfolio, now) ==
    LET rows == {r \in st.portfolio_metrics : r.portfolio_id = target_portfolio}
    IN IF rows = {}
       THEN [st EXCEPT !.portfolio_metrics =
               @ \cup {[portfolio_id |-> target_portfolio, as_of |-> now, metrics |-> <<>>,
                        stale |-> TRUE, stale_reason |-> <<"positions_changed">>,
                        updated_at |-> now]}]
       ELSE [st EXCEPT !.portfolio_metrics =
               (@ \ rows) \cup {[r EXCEPT !.stale = TRUE,
                                          !.stale_reason = <<"positions_changed">>,
                                          !.updated_at = now] : r \in rows}]

\* the portfolio is inserted without its metrics row
NoMetricsRowSeeded(st, id, now) == st

\* trigger portfolios_seed_metrics_row
EnsurePortfolioMetricsRow(st, id, now) ==
    IF \E r \in st.portfolio_metrics : r.portfolio_id = id THEN st
    ELSE [st EXCEPT !.portfolio_metrics =
            @ \cup {[portfolio_id |-> id, as_of |-> now, metrics |-> <<>>,
                     stale |-> TRUE, stale_reason |-> <<"portfolio_initialized">>,
                     updated_at |-> now]}]

\* insert into portfolios, with its trigger
InsertPortfolio(st, id, now) ==
    EnsurePortfolioMetricsRow([st EXCEPT !.portfolios = @ \cup {id}], id, now)

\* portfolio_positions upsert on (portfolio_id, ticker), with its triggers
UpsertPositionRow(st, portfolioId, rawTicker, quantity, costBasis, now) ==
    LET ticker == ToUpperCase(rawTicker)
        ensured == EnsureAssetTickerExists(st, ticker)
        old == {r \in st.portfolio_positions :
                  r.portfolio_id = portfolioId /\ r.ticker = ticker}
        row == [portfolio_id |-> portfolioId, ticker |-> ticker,
                quantity |-> quantity, cost_basis |-> costBasis]
        written == [ensured EXCEPT !.portfolio_positions = (@ \ old) \cup {row}]
    IN MarkMetricsStaleFromPositions(written, portfolioId, now)

\* portfolio_positions delete of the row (portfolio_id, ticker), with its trigger
DeletePositionRow(st, portfolioId, ticker, now) ==
    LET old == {r \in st.portfolio_positions :
                  r.portfolio_id = portfolioId /\ r.ticker = ticker}
    IN IF old = {} THEN st
       ELSE MarkMetricsStaleFromPositions(
                [st EXCEPT !.portfolio_positions = @ \ old], portfolioId, now)

\* the tickers a client names and the quantity and cost it gives
RawTickers == {Str("a"), Str("B")}
PositionValues ==
    {[quantity |-> NumberValue(1, 0), cost_basis |-> NullValue],
     [quantity |-> NumberValue(2, 0), cost_basis |-> NumberValue(1, 0)]}

Operation(op, status) ==
    [NoOperation EXCEPT !.op = op, !.status = status, !.now = clock, !.before = store]

\* insert into portfolios; which fresh id the row gets makes no difference, the
\* ids are handed out in order
CreatePortfolio ==
    /\ steps < MaxSteps
    /\ \E id \in PortfolioIds \ store.portfolios :
          /\ \A other \in PortfolioIds \ store.portfolios : id <= other
          /\ store' = InsertPortfolio(store, id, clock)
          /\ last' = [Operation("createPortfolio", 201) EXCEPT !.pid = id]
    /\ steps' = steps + 1
    /\ UNCHANGED <<clock, recomputed, inflight, providerVars, pureVars>>

\* SupabasePortfolioPositionRepo.upsertPosition on a portfolio of the caller
UpsertPosition ==
    /\ steps < MaxSteps
    /\ \E id \in store.portfolios, raw \in RawTickers, v \in PositionValues :
          /\ store' = UpsertPositionRow(store, id, raw, v.quantity, v.cost_basis, clock)
          /\ last' = [Operation("upsertPosition", 200) EXCEPT
                         !.pid = id, !.ticker = ToUpperCase(raw)]
    /\ steps' = steps + 1
    /\ UNCHANGED <<clock, recomputed, inflight, providerVars, pureVars>>

\* SupabasePortfolioPositionRepo.deletePosition of a position that exists
DeletePosition ==
    /\ steps < MaxSteps
    /\ \E row \in store.portfolio_positions :
          /\ store' = DeletePositionRow(store, row.portfolio_id, row.ticker, clock)
          /\ last' = [Operation("deletePosition", 200) EXCEPT
                         !.pid = row.portfolio_id, !.ticker = row.ticker]
    /\ steps' = steps + 1
    /\ UNCHANGED <<clock, recomputed, inflight, providerVars, pureVars>>

Tick ==
    /\ clock < MaxClock
    /\ clock' = clock + 1
    /\ UNCHANGED <<store, last, steps, recomputed, inflight, providerVars, pureVars>>

(***************************************************************************)
(* fetch-prices-batch: the ingestion run.                                  *)
(***************************************************************************)
\* the request methods the jobs are called with
Methods == {"GET", "POST", "DELETE"}

\* every method passes
AnyMethodAllowed(method) == TRUE

\* request.method !== "POST" && request.method !== "GET" gives 405
MethodAllowed(method) == method \in {"POST", "GET"}

MethodNotAllowedBody == [NoBody EXCEPT !.error = "Method not allowed"]

FetchConfigs ==
    [batchSize : 1..MaxBatch, minFetchIntervalMinutes : {1}, errorBackoffMinutes : {2}]

\* the store calls of a run that can come back with an error
IngestFailPoints ==
    {"none", "selectTickers", "upsertQuotes", "updateSucceeded", "markTickersErrored",
     "selectPositions", "upsertMetrics"}

\* what the upstream answers: for A a price with its market time or a price
\* without any time field, for B a price with its market time
TimedEntry(symbol) == RegularEntry(symbol, Num(1), Num(-1))
UntimedEntry(symbol) == RegularEntry(symbol, Num(2), Absent)
UpstreamPayloads ==
    {<<>>, <<TimedEntry(Str("A"))>>, <<UntimedEntry(Str("A"))>>, <<TimedEntry(Str("B"))>>,
     <<TimedEntry(Str("A")), TimedEntry(Str("B"))>>,
     <<UntimedEntry(Str("A")), TimedEntry(Str("B"))>>}

\* what quoteProvider.fetchQuotes does: throw, or return the quotes of a payload
Upstreams ==
    {[kind |-> "error", reason |-> "Yahoo Finance authentication failed after retry",
      payload |-> <<>>]}
    \cup {[kind |-> "quotes", reason |-> "", payload |-> p] : p \in UpstreamPayloads}

FetchKey(row) == IF row.last_fetched_at = <<>> THEN Epoch ELSE row.last_fetched_at[1]

\* the selection without its retry_after condition
SelectIgnoringBackoff(st, now, p_batch_size, p_min_fetch_interval_minutes) ==
    LET rows == {r \in st.asset_tickers :
                   /\ r.status = "active"
                   /\ (r.last_fetched_at = <<>>
                       \/ now - r.last_fetched_at[1] > Max(p_min_fetch_interval_minutes, 0))}
        n == Min(Max(p_batch_size, 1), Cardinality(rows))
        results == {s \in [1..n -> rows] :
                      /\ \A i, j \in 1..n : i < j =>
                            s[i] # s[j] /\ FetchKey(s[i]) <= FetchKey(s[j])
                      /\ \A r \in rows \ Range(s) :
                            \A i \in 1..n : FetchKey(s[i]) <= FetchKey(r)}
    IN {[i \in 1..n |-> s[i].ticker] : s \in results}

\* select_asset_tickers_for_fetch: every result the query can give; rows with
\* equal keys come in any order
SelectAssetTickersForFetch(st, now, p_batch_size, p_min_fetch_interval_minutes) ==
    LET rows == {r \in st.asset_tickers :
                   /\ r.status = "active"
                   /\ (r.retry_after = <<>> \/ r.retry_after[1] <= now)
                   /\ (r.last_fetched_at = <<>>
                       \/ now - r.last_fetched_at[1] > Max(p_min_fetch_interval_minutes, 0))}
        n == Min(Max(p_batch_size, 1), Cardinality(rows))
        results == {s \in [1..n -> rows] :
                      /\ \A i, j \in 1..n : i < j =>
                            s[i] # s[j] /\ FetchKey(s[i]) <= FetchKey(s[j])
                      /\ \A r \in rows \ Range(s) :
                            \A i \in 1..n : FetchKey(s[i]) <= FetchKey(r)}
    IN {[i \in 1..n |-> s[i].ticker] : s \in results}

BuildQuoteUpserts(quotes, fetchedAt) ==
    [i \in DOMAIN quotes |->
        [ticker |-> quotes[i].ticker, currency |-> quotes[i].currency,
         last_price |-> quotes[i].price, price_source |-> "yahoo_finance",
         last_price_at |-> quotes[i].priceTime, fetched_at |-> fetchedAt]]

\* the statement is refused: a ticker without its asset_tickers row, or the
\* same ticker twice in one upsert
UpsertRefused(st, upserts) ==
    \/ \E i \in DOMAIN upserts : \A r \in st.asset_tickers : r.ticker # upserts[i].ticker
    \/ \E i, j \in DOMAIN upserts : i # j /\ upserts[i].ticker = upserts[j].ticker

\* asset_quotes upsert on conflict (ticker)
UpsertQuotes(st, upserts) ==
    LET keys == {upserts[i].ticker : i \in DOMAIN upserts}
    IN [st EXCEPT !.asset_quotes =
          {r \in @ : r.ticker \notin keys} \cup Range(upserts)]

\* the backoff of an earlier failure is left in place
MarkTickersFetchedKeepBackoff(st, tickers, now) ==
    [st EXCEPT !.asset_tickers =
        {IF r.ticker \in Range(tickers)
         THEN [r EXCEPT !.last_fetched_at = <<now>>, !.last_fetch_error = <<>>]
         ELSE r : r \in @}]

\* updateTickerStatuses with last_fetched_at: now, last_fetch_error: null, retry_after: null
MarkTickersFetched(st, tickers, now) ==
    [st EXCEPT !.asset_tickers =
        {IF r.ticker \in Range(tickers)
         THEN [r EXCEPT !.last_fetched_at = <<now>>, !.last_fetch_error = <<>>,
                        !.retry_after = <<>>]
         ELSE r : r \in @}]

\* the retry is due at once
MarkTickersErroredNoBackoff(st, tickers, now, backoffMinutes, reason) ==
    [st EXCEPT !.asset_tickers =
        {IF r.ticker \in Range(tickers)
         THEN [r EXCEPT !.last_fetch_error = <<reason>>, !.retry_after = <<now>>]
         ELSE r : r \in @}]

\* the failed attempt is recorded as a fetch
MarkTickersErroredAsFetched(st, tickers, now, backoffMinutes, reason) ==
    [st EXCEPT !.asset_tickers =
        {IF r.ticker \in Range(tickers)
         THEN [r EXCEPT !.last_fetched_at = <<now>>, !.last_fetch_error = <<reason>>,
                        !.retry_after = <<now + backoffMinutes>>]
         ELSE r : r \in @}]

MarkTickersErrored(st, tickers, now, backoffMinutes, reason) ==
    [st EXCEPT !.asset_tickers =
        {IF r.ticker \in Range(tickers)
         THEN [r EXCEPT !.last_fetch_error = <<reason>>,
                        !.retry_after = <<now + backoffMinutes>>]
         ELSE r : r \in @}]

\* markPortfoliosStale: the portfolios holding one of the tickers
AffectedPortfolios(st, tickers) ==
    {r.portfolio_id : r \in {x \in st.portfolio_positions : x.ticker \in Range(tickers)}}

\* the upsert replaces the whole row: metrics and as_of fall back to their defaults
UpsertStaleReplacesRow(st, portfolioIds, now) ==
    [st EXCEPT !.portfolio_metrics =
        {r \in @ : r.portfolio_id \notin portfolioIds}
        \cup {[portfolio_id |-> id, as_of |-> now, metrics |-> <<>>, stale |-> TRUE,
               stale_reason |-> <<"prices_updated">>, updated_at |-> now] :
                 id \in portfolioIds}]

\* portfolio_metrics upsert of {portfolio_id, stale: true, stale_reason} on
\* conflict (portfolio_id)
UpsertStale(st, portfolioIds, now) ==
    LET rows == {r \in st.portfolio_metrics : r.portfolio_id \in portfolioIds}
        fresh == portfolioIds \ {r.portfolio_id : r \in rows}
    IN [st EXCEPT !.portfolio_metrics =
          (@ \ rows)
          \cup {[r EXCEPT !.stale = TRUE, !.stale_reason = <<"prices_updated">>,
                          !.updated_at = now] : r \in rows}
          \cup {[portfolio_id |-> id, as_of |-> now, metrics |-> <<>>, stale |-> TRUE,
                 stale_reason |-> <<"prices_updated">>, updated_at |-> now] : id \in fresh}]

FetchBody(processed, updated, missing, stalePortfolios) ==
    [NoBody EXCEPT !.processedTickers = processed, !.updatedTickers = updated,
                   !.missingTickers = missing, !.stalePortfolios = stalePortfolios]

UnexpectedBody == [NoBody EXCEPT !.error = "Unexpected server error"]

FetchRun(st, status, body, tickers, upstream, quotes, storeError, calls) ==
    [store |-> st, status |-> status, body |-> body, tickers |-> tickers,
     upstream |-> upstream, quotes |-> quotes, storeError |-> storeError,
     calls |-> calls]

\* steps 4 to 6 of the run, after fetchQuotes returned
HandleFetched(st, now, config, tickers, upstream, failAt) ==
    LET remoteQuotes == IF upstream.kind = "remote" THEN upstream.payload
                        ELSE ParseQuoteResponse(upstream.payload, tickers, now)
        upserts == BuildQuoteUpserts(remoteQuotes, now)
        Failed(s, point, calls) ==
            FetchRun(s, 500, UnexpectedBody, tickers, upstream, remoteQuotes, point, calls)
        st1 == IF upserts = <<>> THEN st ELSE UpsertQuotes(st, upserts)
        parts == PartitionTickers(tickers, remoteQuotes)
        st2 == IF parts.succeeded = <<>> THEN st1
               ELSE MarkTickersFetched(st1, parts.succeeded, now)
        st3 == IF parts.missing = <<>> THEN st2
               ELSE MarkTickersErrored(st2, parts.missing, now,
                                       config.errorBackoffMinutes, "Quote not returned")
        portfolioIds == AffectedPortfolios(st3, parts.succeeded)
        st4 == IF portfolioIds = {} THEN st3 ELSE UpsertStale(st3, portfolioIds, now)
        \* the calls made so far, a call that came back with an error included
        c1 == <<"selectTickers", "fetchQuotes">>
              \o (IF upserts = <<>> THEN <<>> ELSE <<"upsertQuotes">>)
        c2 == c1 \o (IF parts.succeeded = <<>> THEN <<>> ELSE <<"updateSucceeded">>)
        c3 == c2 \o (IF parts.missing = <<>> THEN <<>> ELSE <<"markTickersErrored">>)
        c4 == c3 \o (IF parts.succeeded = <<>> THEN <<>> ELSE <<"selectPositions">>)
        c5 == c4 \o (IF portfolioIds = {} THEN <<>> ELSE <<"upsertMetrics">>)
    IN IF upserts # <<>> /\ (failAt = "upsertQuotes" \/ UpsertRefused(st, upserts))
       THEN Failed(st, "upsertQuotes", c1)
       ELSE IF parts.succeeded # <<>> /\ failAt = "updateSucceeded"
       THEN Failed(st1, "updateSucceeded", c2)
       ELSE IF parts.missing # <<>> /\ failAt = "markTickersErrored"
       THEN Failed(st2, "markTickersErrored", c3)
       ELSE IF parts.succeeded # <<>> /\ failAt = "selectPositions"
       THEN Failed(st3, "selectPositions", c4)
       ELSE IF portfolioIds # {} /\ failAt = "upsertMetrics"
       THEN Failed(st3, "upsertMetrics", c5)
       ELSE FetchRun(st4, 200,
                     FetchBody(Len(tickers), Len(parts.succeeded), Len(parts.missing),
                               Cardinality(portfolioIds)),
                     tickers, upstream, remoteQuotes, "", c5)

\* handleFetchPricesBatch for one outcome of each call it makes: the rows the
\* selection returned, what fetchQuotes did, and the store call that failed
HandleFetchPricesBatch(st, now, method, config, selection, upstream, failAt) ==
    LET tickers == [i \in DOMAIN selection |-> ToUpperCase(selection[i])]
    IN IF ~MethodAllowed(method)
       THEN FetchRun(st, 405, MethodNotAllowedBody, <<>>, NoUpstream, <<>>, "", <<>>)
       ELSE IF failAt = "selectTickers"
       THEN FetchRun(st, 500, UnexpectedBody, <<>>, NoUpstream, <<>>, "selectTickers",
                     <<"selectTickers">>)
       ELSE IF tickers = <<>>
       THEN FetchRun(st, 200, FetchBody(0, 0, 0, 0), tickers, NoUpstream, <<>>, "",
                     <<"selectTickers">>)
       ELSE IF upstream.kind = "error"
       THEN IF failAt = "markTickersErrored"
            THEN FetchRun(st, 500, UnexpectedBody, tickers, upstream, <<>>,
                          "markTickersErrored",
                          <<"selectTickers", "fetchQuotes", "markTickersErrored">>)
            ELSE FetchRun(MarkTickersErrored(st, tickers, now,
                                             config.errorBackoffMinutes, upstream.reason),
                          502,
                          [NoBody EXCEPT !.error = upstream.reason,
                                         !.processedTickers = Len(tickers)],
                          tickers, upstream, <<>>, "",
                          <<"selectTickers", "fetchQuotes", "markTickersErrored">>)
       ELSE HandleFetched(st, now, config, tickers, upstream, failAt)

\* one request to fetch-prices-batch, its method, the failing store call and
\* what the quote provider does drawn from the given sets
IngestWith(methods, failPoints, upstreams) ==
    /\ steps < MaxSteps
    /\ \E method \in methods, config \in FetchConfigs, upstream \in upstreams,
          failAt \in failPoints :
       \E selection \in SelectAssetTickersForFetch(store, clock, config.batchSize,
                                                   config.minFetchIntervalMinutes) :
       \E run \in {HandleFetchPricesBatch(store, clock, method, config, selection,
                                            upstream, failAt)} :
             /\ store' = run.store
             /\ last' = [Operation("ingest", run.status) EXCEPT
                            !.method = method, !.calls = run.calls,
                            !.batchSize = config.batchSize,
                            !.minFetchIntervalMinutes = config.minFetchIntervalMinutes,
                            !.errorBackoffMinutes = config.errorBackoffMinutes,
                            !.body = run.body, !.tickers = run.tickers,
                            !.upstream = run.upstream, !.quotes = run.quotes,
                            !.storeError = run.storeError,
                            !.prev = IF last.op = "ingest"
                                     THEN <<[tickers |-> last.tickers,
                                             upstream |-> last.upstream,
                                             status |-> last.status,
                                             batchSize |-> last.batchSize,
                                             storeError |-> last.storeError,
                                             written |->
                                                IF "upsertQuotes" \in Range(last.calls)
                                                   /\ last.storeError # "upsertQuotes"
                                                THEN {last.quotes[i].ticker :
                                                        i \in DOMAIN last.quotes}
                                                ELSE {}]>>
                                     ELSE <<>>]
    /\ steps' = steps + 1
    /\ UNCHANGED <<clock, recomputed, inflight, providerVars, pureVars>>

\* the request served with the provider the function constructs
IngestRequest(methods, failPoints) == IngestWith(methods, failPoints, Upstreams)

\* the scheduler's request, with every store call that may fail
IngestRun == IngestRequest({"POST"}, IngestFailPoints)

\* a request with any method, the store answering every call
IngestAnyMethod == IngestRequest(Methods, {"none"})

(***************************************************************************)
(* recalc-metrics-batch: the metrics run.                                  *)
(***************************************************************************)
\* the call of recomputePortfolio that comes back with an error
RecalcFailPoints == {"none", "positions", "quotes", "persist"}

\* select_stale_portfolios: every result the query can give
SelectStalePortfolios(st, p_batch_size) ==
    LET rows == {r \in st.portfolio_metrics : r.stale}
        n == Min(Max(p_batch_size, 1), Cardinality(rows))
        results == {s \in [1..n -> rows] :
                      /\ \A i, j \in 1..n : i < j =>
                            s[i] # s[j] /\ s[i].updated_at <= s[j].updated_at
                      /\ \A r \in rows \ Range(s) :
                            \A i \in 1..n : s[i].updated_at <= r.updated_at}
    IN {[i \in 1..n |-> s[i].portfolio_id] : s \in results}

LoadPortfolioPositions(st, portfolioId) ==
    SetToSeq({[ticker |-> r.ticker, quantity |-> r.quantity, cost_basis |-> r.cost_basis] :
                r \in {x \in st.portfolio_positions : x.portfolio_id = portfolioId}})

LoadQuotesForPositions(st, tickers) ==
    SetToSeq({[ticker |-> r.ticker, last_price |-> NumberValue(r.last_price, 0)] :
                r \in {x \in st.asset_quotes : x.ticker \in tickers}})

\* the row is marked fresh and as_of is not refreshed
PersistMetricsKeepAsOf(st, portfolioId, metrics, asOf, now) ==
    LET rows == {r \in st.portfolio_metrics : r.portfolio_id = portfolioId}
    IN [st EXCEPT !.portfolio_metrics =
          (@ \ rows) \cup {[r EXCEPT !.metrics = <<metrics>>, !.stale = FALSE,
                                     !.stale_reason = <<>>, !.updated_at = now] :
                              r \in rows}]

\* portfolio_metrics upsert on conflict (portfolio_id)
PersistMetrics(st, portfolioId, metrics, asOf, now) ==
    LET rows == {r \in st.portfolio_metrics : r.portfolio_id = portfolioId}
    IN [st EXCEPT !.portfolio_metrics =
          (@ \ rows) \cup {[portfolio_id |-> portfolioId, as_of |-> asOf,
                            metrics |-> <<metrics>>, stale |-> FALSE,
                            stale_reason |-> <<>>, updated_at |-> now]}]

\* recomputePortfolio: the store after it, whether it returned or threw, and
\* the store calls it made
RecomputePortfolio(st, portfolioId, asOf, failAt) ==
    IF failAt = "positions"
    THEN [store |-> st, ok |-> FALSE, calls |-> <<"loadPortfolioPositions">>]
    ELSE With(LoadPortfolioPositions(st, portfolioId), LAMBDA positions :
      LET tickers == {ToUpperCase(positions[i].ticker) : i \in DOMAIN positions}
          loads == <<"loadPortfolioPositions">>
                   \o (IF tickers = {} THEN <<>> ELSE <<"loadQuotesForPositions">>)
      IN IF tickers # {} /\ failAt = "quotes"
         THEN [store |-> st, ok |-> FALSE, calls |-> loads]
         ELSE With(LoadQuotesForPositions(st, tickers), LAMBDA quotes :
           With(CalculatePortfolioMetrics(positions, quotes), LAMBDA metrics :
             IF failAt = "persist"
             THEN [store |-> st, ok |-> FALSE, calls |-> Append(loads, "persistMetrics")]
             ELSE [store |-> PersistMetrics(st, portfolioId, metrics, asOf, asOf),
                   ok |-> TRUE, calls |-> Append(loads, "persistMetrics")])))

RECURSIVE RecalcLoopStopsAtFailure(_, _, _, _)
\* the first portfolio that fails ends the loop
RecalcLoopStopsAtFailure(st, batch, asOf, failAt) ==
    IF batch = <<>> THEN [store |-> st, done |-> {}, failed |-> {}, calls |-> <<>>]
    ELSE With(RecomputePortfolio(st, Head(batch), asOf, failAt[Head(batch)]), LAMBDA one :
           IF ~one.ok
           THEN [store |-> one.store, done |-> {}, failed |-> {Head(batch)},
                 calls |-> one.calls]
           ELSE With(RecalcLoopStopsAtFailure(one.store, Tail(batch), asOf, failAt),
                     LAMBDA rest :
                       [store |-> rest.store, done |-> rest.done \cup {Head(batch)},
                        failed |-> rest.failed, calls |-> one.calls \o rest.calls]))

RECURSIVE RecalcLoop(_, _, _, _)
\* the loop over the batch: the store after it, the portfolios whose
\* recomputePortfolio returned (successes) and those where it threw (failures)
RecalcLoop(st, batch, asOf, failAt) ==
    IF batch = <<>> THEN [store |-> st, done |-> {}, failed |-> {}, calls |-> <<>>]
    ELSE With(RecomputePortfolio(st, Head(batch), asOf, failAt[Head(batch)]), LAMBDA one :
           With(RecalcLoop(one.store, Tail(batch), asOf, failAt), LAMBDA rest :
             [store |-> rest.store,
              done |-> IF one.ok THEN rest.done \cup {Head(batch)} ELSE rest.done,
              failed |-> IF one.ok THEN rest.failed
                         ELSE rest.failed \cup {Head(batch)},
              calls |-> one.calls \o rest.calls]))

RecalcRunResult(st, status, body, batch, done, failed, calls) ==
    [store |-> st, status |-> status, body |-> body, batch |-> batch,
     done |-> done, failed |-> failed, calls |-> calls]

\* handleRecalcMetricsBatch for one outcome of each call it makes
HandleRecalcMetricsBatch(st, now, method, batch, selectFails, failAt) ==
    IF ~MethodAllowed(method)
    THEN RecalcRunResult(st, 405, MethodNotAllowedBody, <<>>, {}, {}, <<>>)
    ELSE IF selectFails
    THEN RecalcRunResult(st, 500, UnexpectedBody, <<>>, {}, {},
                         <<"selectStalePortfolios">>)
    ELSE IF batch = <<>>
    THEN RecalcRunResult(st, 200,
                         [NoBody EXCEPT !.processedPortfolios = 0,
                                        !.message = "No stale portfolios"],
                         batch, {}, {}, <<"selectStalePortfolios">>)
    ELSE With(RecalcLoop(st, batch, now, failAt), LAMBDA loop :
           RecalcRunResult(loop.store, 200,
                           [NoBody EXCEPT !.processedPortfolios = Len(batch),
                                          !.recalculated = Cardinality(loop.done),
                                          !.failed = Cardinality(loop.failed)],
                           batch, loop.done, loop.failed,
                           <<"selectStalePortfolios">> \o loop.calls))

\* one request to recalc-metrics-batch
RecalcRequest(methods, selectFailures, failPoints) ==
    /\ steps < MaxSteps
    /\ \E method \in methods, batchSize \in 1..MaxBatch, selectFails \in selectFailures,
          failAt \in [PortfolioIds -> failPoints] :
       \E batch \in SelectStalePortfolios(store, batchSize) :
       \E run \in {HandleRecalcMetricsBatch(store, clock, method, batch, selectFails,
                                              failAt)} :
             /\ store' = run.store
             /\ last' = [Operation("recalc", run.status) EXCEPT
                            !.method = method, !.calls = run.calls,
                            !.body = run.body, !.batch = run.batch,
                            !.done = run.done, !.failed = run.failed]
             /\ recomputed' = recomputed \cup run.done
    /\ steps' = steps + 1
    /\ UNCHANGED <<clock, inflight, providerVars, pureVars>>

RecalcRun == RecalcRequest({"POST"}, BOOLEAN, RecalcFailPoints)

RecalcAnyMethod == RecalcRequest(Methods, {FALSE}, {"none"})

(***************************************************************************)
(* sync-reference-tickers: the catalog run.  A feed is the list of entries *)
(* its parser returns for the text downloaded.                             *)
(***************************************************************************)
SyncFailPoints ==
    {"none", "downloadNasdaq", "downloadOther", "upsert", "upsertLater", "deactivate"}

UpsertChunkSize == 1 \* UPSERT_BATCH_SIZE, scaled to the feeds of the model

NasdaqFeeds ==
    {<<>>, <<[ticker |-> Str("A"), name |-> "Apple Inc.", source |-> "nasdaq_directory"]>>}
OtherFeeds ==
    {<<>>,
     <<[ticker |-> Str("B"), name |-> "Beta Corp.", source |-> "otherlisted_directory"]>>,
     <<[ticker |-> Str("Z"), name |-> "Zeta Corp.", source |-> "otherlisted_directory"]>>}

\* reference_tickers upsert on conflict (ticker) of the merged entries, each
\* with last_seen_at: runTimestamp, is_active: true
UpsertReferenceTickers(st, merged, runTimestamp) ==
    LET keys == {merged[i].ticker : i \in DOMAIN merged}
    IN [st EXCEPT !.reference_tickers =
          {r \in @ : r.ticker \notin keys}
          \cup {[ticker |-> merged[i].ticker, name |-> merged[i].name,
                 source |-> merged[i].source, is_active |-> TRUE,
                 last_seen_at |-> runTimestamp] : i \in DOMAIN merged}]

\* the rows update({is_active: false}).lt("last_seen_at", runTimestamp) matches
DeactivatedRows(st, runTimestamp) ==
    {r \in st.reference_tickers : r.last_seen_at < runTimestamp}

\* no row is deactivated
DeactivateNone(st, runTimestamp) == st

DeactivateStale(st, runTimestamp) ==
    [st EXCEPT !.reference_tickers =
        {IF r.last_seen_at < runTimestamp THEN [r EXCEPT !.is_active = FALSE] ELSE r :
           r \in @}]

\* chunk failedChunk of the upsert deactivates as well
FailedUpsertDeactivates(st, merged, runTimestamp, failedChunk) ==
    DeactivateStale(
        UpsertReferenceTickers(
            st, SubSeq(merged, 1, Min((failedChunk - 1) * UpsertChunkSize, Len(merged))),
            runTimestamp),
        runTimestamp)

\* upsertReferenceTickers throwing at chunk failedChunk: the chunks before it
\* are written
FailedUpsert(st, merged, runTimestamp, failedChunk) ==
    UpsertReferenceTickers(
        st, SubSeq(merged, 1, Min((failedChunk - 1) * UpsertChunkSize, Len(merged))),
        runTimestamp)

SyncRunResult(st, status, body, calls, merged) ==
    [store |-> st, status |-> status, body |-> body, calls |-> calls,
     tickers |-> [i \in DOMAIN merged |-> merged[i].ticker]]

\* handleSyncReferenceTickers for one outcome of each call it makes
HandleSyncReferenceTickers(st, now, method, nasdaqEntries, otherEntries, failAt) ==
    LET merged == MergeDirectoryTickers(<<nasdaqEntries, otherEntries>>)
        downloads == <<"downloadNasdaq", "downloadOther">>
        written == IF merged = <<>> THEN <<>> ELSE <<"upsertReferenceTickers">>
        st1 == IF merged = <<>> THEN st ELSE UpsertReferenceTickers(st, merged, now)
    IN IF ~MethodAllowed(method)
       THEN SyncRunResult(st, 405, MethodNotAllowedBody, <<>>, <<>>)
       ELSE IF failAt \in {"downloadNasdaq", "downloadOther"}
       THEN SyncRunResult(st, 500, [NoBody EXCEPT !.error = "Failed to download directory"],
                          downloads, <<>>)
       ELSE IF merged # <<>> /\ failAt = "upsert"
       THEN SyncRunResult(FailedUpsert(st, merged, now, 1), 500,
                          [NoBody EXCEPT !.error = "Failed to upsert reference tickers"],
                          downloads \o written, merged)
       ELSE IF Len(merged) > UpsertChunkSize /\ failAt = "upsertLater"
       THEN SyncRunResult(FailedUpsert(st, merged, now, 2), 500,
                          [NoBody EXCEPT !.error = "Failed to upsert reference tickers"],
                          downloads \o written, merged)
       ELSE IF failAt = "deactivate"
       THEN SyncRunResult(st1, 500,
                          [NoBody EXCEPT !.error = "Failed to deactivate stale tickers"],
                          downloads \o written \o <<"deactivate">>, merged)
       ELSE SyncRunResult(DeactivateStale(st1, now), 200,
                          [NoBody EXCEPT !.fetchedNasdaq = Len(nasdaqEntries),
                                         !.fetchedOther = Len(otherEntries),
                                         !.upserts = Len(merged),
                                         !.deactivated =
                                             Cardinality(DeactivatedRows(st1, now))],
                          downloads \o written \o <<"deactivate">>, merged)

\* one request to sync-reference-tickers
SyncAnyMethod ==
    /\ steps < MaxSteps
    /\ \E method \in Methods, nasdaqEntries \in NasdaqFeeds, otherEntries \in OtherFeeds,
          failAt \in SyncFailPoints :
       \E run \in {HandleSyncReferenceTickers(store, clock, method, nasdaqEntries,
                                                otherEntries, failAt)} :
             /\ store' = run.store
             /\ last' = [Operation("sync", run.status) EXCEPT
                            !.method = method, !.calls = run.calls, !.body = run.body,
                            !.tickers = run.tickers]
    /\ steps' = steps + 1
    /\ UNCHANGED <<clock, recomputed, inflight, providerVars, pureVars>>

StoreNext ==
    \/ CreatePortfolio
    \/ UpsertPosition
    \/ DeletePosition
    \/ IngestRun
    \/ RecalcRun
    \/ Tick

InitStore == StoreInit /\ ProviderInit /\ cache = <<>> /\ PureIdle

SpecStore == InitStore /\ [][StoreNext]_vars

\* the three batch jobs called with any request method
JobsNext ==
    \/ CreatePortfolio
    \/ UpsertPosition
    \/ IngestAnyMethod
    \/ RecalcAnyMethod
    \/ SyncAnyMethod
    \/ Tick

InitJobs == StoreInit /\ ProviderInit /\ cache = <<>> /\ PureIdle

SpecJobs == InitJobs /\ [][JobsNext]_vars

(***************************************************************************)
(* Ingestion runs over a store in use: portfolio 1 holds A and B and a     *)
(* metrics run has recomputed it.                                          *)
(***************************************************************************)
MaxRuns == 2         \* ingestion runs over the store in use

\* the store after portfolio 1 was created, got its two positions and was
\* recomputed, all at clock 0
SettledStore ==
    LET created == InsertPortfolio(EmptyStore, 1, 0)
        withA == UpsertPositionRow(created, 1, Str("a"), NumberValue(1, 0), NullValue, 0)
        withB == UpsertPositionRow(withA, 1, Str("B"), NumberValue(1, 0), NullValue, 0)
    IN RecomputePortfolio(withB, 1, 0, "none").store

InitRerun ==
    /\ store = SettledStore
    /\ clock = 0
    /\ last = NoOperation
    /\ steps = 0
    /\ recomputed = {1}
    /\ inflight = <<>>
    /\ ProviderInit /\ cache = <<>> /\ PureIdle

\* an ingestion run and the runs that follow it
RepeatedIngest == steps < MaxRuns /\ IngestRun

RerunNext == RepeatedIngest \/ Tick

SpecRerun == InitRerun /\ [][RerunNext]_vars

(***************************************************************************)
(* Ingestion runs recurring forever.  The clock stands still and every     *)
(* timestamp of the store is counted back from it as time passes, so that  *)
(* the comparisons of the selection see the same differences; a timestamp  *)
(* older than MaxAge is kept as it is, being past every interval and       *)
(* every backoff.  The scheduler invokes the function every RunPeriod      *)
(* minutes, steps counting the minutes since the last run.  The upstream   *)
(* has a quote for A whenever A is requested, never one for B or Z.        *)
(***************************************************************************)
MaxAge == 2          \* minutes a timestamp is counted back from the clock
RunPeriod == 2       \* minutes between two runs of the schedule

Quotable == {Str("A")}

Aged(t, now) == IF t > now - MaxAge THEN t - 1 ELSE t

\* one minute passes: timezone('utc', now()) moves on against every stored time
AgeStore(st, now) ==
    [st EXCEPT
       !.asset_tickers =
          {[r EXCEPT !.last_fetched_at = IF @ = <<>> THEN @ ELSE <<Aged(@[1], now)>>,
                     !.retry_after = IF @ = <<>> THEN @ ELSE <<Aged(@[1], now)>>] : r \in @},
       !.asset_quotes =
          {[q EXCEPT !.fetched_at = Aged(@, now), !.last_price_at = Aged(@, now)] : q \in @}]

Elapse ==
    /\ steps < RunPeriod
    /\ steps' = steps + 1
    /\ store' = AgeStore(store, clock)
    /\ UNCHANGED <<clock, last, recomputed, inflight, providerVars, pureVars>>

\* what fetchQuotes returns for the batch: the entries of the quotable tickers
AnswerFor(tickers) ==
    [kind |-> "quotes", reason |-> "",
     payload |-> IF \E i \in DOMAIN tickers : tickers[i] \in Quotable
                 THEN <<TimedEntry(Str("A"))>> ELSE <<>>]

FetchThrows ==
    [kind |-> "error", reason |-> "Yahoo Finance authentication failed after retry",
     payload |-> <<>>]

\* one scheduled run with the configuration of the runs before it
RotationRun(fetchReturns) ==
    /\ steps = RunPeriod
    /\ steps' = 0
    /\ \E config \in {c \in FetchConfigs : c.batchSize = last.batchSize} :
       \E selection \in SelectAssetTickersForFetch(store, clock, config.batchSize,
                                                   config.minFetchIntervalMinutes) :
       \E run \in {HandleFetchPricesBatch(store, clock, "POST", config, selection,
                                            IF fetchReturns
                                            THEN AnswerFor(selection) ELSE FetchThrows,
                                            "none")} :
          /\ store' = run.store
          /\ last' = [NoOperation EXCEPT !.op = "ingest", !.status = run.status,
                                         !.batchSize = config.batchSize,
                                         !.tickers = run.tickers]
    /\ UNCHANGED <<clock, recomputed, inflight, providerVars, pureVars>>

\* the run whose fetchQuotes call returns
RotationFetched == RotationRun(TRUE)

\* the run whose fetchQuotes call throws
RotationFailed == RotationRun(FALSE)

\* asset_tickers rows of three tickers that were never fetched
RotationStore ==
    EnsureAssetTickerExists(
        EnsureAssetTickerExists(EnsureAssetTickerExists(EmptyStore, Str("A")), Str("B")),
        Str("Z"))

InitRotation ==
    /\ store = RotationStore
    /\ clock = MaxAge
    /\ \E b \in 1..MaxBatch : last = [NoOperation EXCEPT !.batchSize = b]
    /\ steps = 0
    /\ recomputed = {}
    /\ inflight = <<>>
    /\ ProviderInit
    /\ cache = <<>>
    /\ PureIdle

\* the run of the schedule, whatever its fetch does
ScheduledRun == RotationFetched \/ RotationFailed

\* a run that selects a quotable ticker and whose fetch returns
QuotableFetched == RotationFetched /\ Quotable \cap Range(last'.tickers) # {}

RotationNext == RotationFetched \/ RotationFailed \/ Elapse

\* time passes, the scheduler invokes the function when a run is due, and of
\* the runs that can select a quotable ticker not every one takes another
\* ticker instead or fails at the fetch
SpecRotation ==
    /\ InitRotation
    /\ [][RotationNext]_vars
    /\ WF_vars(Elapse)
    /\ WF_vars(ScheduledRun)
    /\ SF_vars(QuotableFetched)

(***************************************************************************)
(* Metrics runs recurring forever.  select_stale_portfolios compares the   *)
(* updated_at of the rows with each other and with nothing else, so as     *)
(* time passes every updated_at is replaced by the number of older         *)
(* updated_at values of the table: the order of the rows, ties included,   *)
(* is kept, and the standing clock stays ahead of every row.  Portfolio 1  *)
(* fails at every recomputation, the recomputation of portfolio 2 always   *)
(* succeeds, and portfolio 3 is the one ingestion marks stale again.       *)
(***************************************************************************)
QueuePortfolios == {1, 2, 3}

FailingPortfolios == {1}

RemarkedPortfolios == {3}

\* the outcome of recomputePortfolio for each portfolio, the same at every run
QueueFailures == [p \in QueuePortfolios |-> IF p \in FailingPortfolios THEN "persist" ELSE "none"]

OlderTimes(st, t) == {u \in {r.updated_at : r \in st.portfolio_metrics} : u < t}

\* one minute passes: now() moves on against every updated_at and as_of
AgeQueue(st, now) ==
    [st EXCEPT !.portfolio_metrics =
        {[r EXCEPT !.updated_at = Cardinality(OlderTimes(st, @)),
                   !.as_of = Aged(@, now)] : r \in @}]

QueueElapse ==
    /\ steps < RunPeriod
    /\ steps' = steps + 1
    /\ store' = AgeQueue(store, clock)
    /\ UNCHANGED <<clock, last, recomputed, inflight, providerVars, pureVars>>

\* one scheduled metrics run with the batchSize of the runs before it
QueueRun ==
    /\ steps = RunPeriod
    /\ steps' = 0
    /\ \E batch \in SelectStalePortfolios(store, last.batchSize) :
       \E run \in {HandleRecalcMetricsBatch(store, clock, "POST", batch, FALSE,
                                              QueueFailures)} :
          /\ store' = run.store
          /\ last' = [NoOperation EXCEPT !.op = "recalc", !.status = run.status,
                                         !.batchSize = last.batchSize,
                                         !.batch = run.batch, !.done = run.done,
                                         !.failed = run.failed]
    /\ UNCHANGED <<clock, recomputed, inflight, providerVars, pureVars>>

\* an ingestion run between two metrics runs fetched a ticker the portfolio
\* holds: markPortfoliosStale
QueueRemark ==
    /\ \E r \in store.portfolio_metrics : r.portfolio_id \in RemarkedPortfolios /\ ~r.stale
    /\ store' = UpsertStale(store, RemarkedPortfolios, clock)
    /\ UNCHANGED <<clock, last, steps, recomputed, inflight, providerVars, pureVars>>

\* every portfolio was marked stale at some time before the first run
QueueStores ==
    {[EmptyStore EXCEPT !.portfolio_metrics =
         {[portfolio_id |-> p, as_of |-> t[p], metrics |-> <<>>, stale |-> TRUE,
           stale_reason |-> <<"prices_updated">>, updated_at |-> t[p]] :
            p \in QueuePortfolios}] :
       t \in [QueuePortfolios -> 0..(Cardinality(QueuePortfolios) - 1)]}

InitQueue ==
    /\ store \in QueueStores
    /\ clock = Cardinality(QueuePortfolios)
    /\ \E b \in 1..MaxBatch : last = [NoOperation EXCEPT !.batchSize = b]
    /\ steps = 0
    /\ recomputed = {}
    /\ inflight = <<>>
    /\ ProviderInit
    /\ cache = <<>>
    /\ PureIdle

QueueNext == QueueRun \/ QueueElapse \/ QueueRemark

\* time passes and the scheduler invokes the function when a run is due
SpecQueue ==
    /\ InitQueue
    /\ [][QueueNext]_vars
    /\ WF_vars(QueueElapse)
    /\ WF_vars(QueueRun)

StaleAggregate(p) ==
    \E r \in store.portfolio_metrics : r.portfolio_id = p /\ r.stale

FreshAggregate(p) ==
    \E r \in store.portfolio_metrics : r.portfolio_id = p /\ ~r.stale

\* C38: under metrics runs that recur forever, a stale aggregate whose own
\* recomputation succeeds is eventually recomputed to stale = false, whatever
\* the batchSize, while another stale portfolio fails at every run and a
\* third is marked stale again by ingestion
C38_StaleEventuallyRecomputed == StaleAggregate(2) ~> FreshAggregate(2)

(***************************************************************************)
(* Ingestion runs with a quote provider handed in through deps: whatever   *)
(* list of RemoteQuote it returns goes to buildQuoteUpserts as it is.      *)
(***************************************************************************)
RemoteQuoteOf(ticker, price) ==
    [ticker |-> ticker, price |-> price, currency |-> "USD", priceTime |-> Epoch,
     exchange |-> "NASDAQ"]

InjectedQuotes ==
    {RemoteQuoteOf(Str("A"), 1), RemoteQuoteOf(Str("B"), 1), RemoteQuoteOf(Str("a"), 2)}

\* deps.quoteProvider.fetchQuotes returns any list of quotes
InjectedResults ==
    {[kind |-> "remote", reason |-> "", payload |-> q] : q \in SeqsUpTo(InjectedQuotes, MaxQuotes)}

InjectedIngest == steps < MaxRuns /\ IngestWith({"POST"}, {"none"}, InjectedResults)

InjectedNext == InjectedIngest \/ Tick

SpecInjected == InitRerun /\ [][InjectedNext]_vars

(***************************************************************************)
(* A metrics run interleaved with the other writers: recomputePortfolio    *)
(* awaits its loads and its persist one after the other, and an ingestion  *)
(* run or a position request may complete in between.                      *)
(***************************************************************************)
\* an ingestion run whose store calls all succeed
IngestUndisturbed == IngestRequest({"POST"}, {"none"})

\* recomputePortfolio up to its second load, for the portfolio a metrics run
\* of batch size 1 selected
RecomputeLoad ==
    /\ steps < MaxSteps
    /\ IF inflight = <<>> THEN TRUE ELSE inflight[1].persisted
    /\ \E batch \in SelectStalePortfolios(store, 1) :
          /\ batch # <<>>
          /\ LET positions == LoadPortfolioPositions(store, batch[1])
                 tickers == {ToUpperCase(positions[i].ticker) : i \in DOMAIN positions}
             IN inflight' = <<[portfolioId |-> batch[1], asOf |-> clock,
                               positions |-> positions,
                               quotes |-> LoadQuotesForPositions(store, tickers),
                               persisted |-> FALSE]>>
    /\ UNCHANGED <<store, clock, last, steps, recomputed, providerVars, pureVars>>

\* recomputePortfolio from calculatePortfolioMetrics on: the persist of what
\* was computed from the loaded rows
RecomputePersist ==
    /\ inflight # <<>>
    /\ ~inflight[1].persisted
    /\ LET run == inflight[1]
           metrics == CalculatePortfolioMetrics(run.positions, run.quotes)
       IN /\ store' = PersistMetrics(store, run.portfolioId, metrics, run.asOf, run.asOf)
          /\ last' = [Operation("recomputePortfolio", 200) EXCEPT
                         !.pid = run.portfolioId, !.done = {run.portfolioId}]
          /\ recomputed' = recomputed \cup {run.portfolioId}
          /\ inflight' = <<[run EXCEPT !.persisted = TRUE]>>
    /\ steps' = steps + 1
    /\ UNCHANGED <<clock, providerVars, pureVars>>

InterleavedNext ==
    \/ CreatePortfolio
    \/ UpsertPosition
    \/ IngestUndisturbed
    \/ RecomputeLoad
    \/ RecomputePersist
    \/ Tick

InitInterleaved == StoreInit /\ ProviderInit /\ cache = <<>> /\ PureIdle

SpecInterleaved == InitInterleaved /\ [][InterleavedNext]_vars

(***************************************************************************)
(* Catalog runs that overlap: each run of handleSyncReferenceTickers is    *)
(* taken one store call at a time, the calls of the runs in any order.     *)
(* inflight holds the runs in the order they took their runTimestamp.      *)
(***************************************************************************)
\* rows.slice(i, i + UPSERT_BATCH_SIZE) for the chunk after the rows written
NextChunk(run) ==
    SubSeq(run.merged, run.written + 1,
           Min(run.written + UpsertChunkSize, Len(run.merged)))

\* the downloads, the parsing and the merge of one run, and its runTimestamp
SyncBegin ==
    /\ Len(inflight) < MaxRuns
    /\ \E nasdaqEntries \in NasdaqFeeds, otherEntries \in OtherFeeds :
          inflight' = Append(inflight,
             [merged |-> MergeDirectoryTickers(<<nasdaqEntries, otherEntries>>),
              runTimestamp |-> clock, written |-> 0, deactivated |-> FALSE,
              status |-> 0])
    /\ UNCHANGED <<store, clock, last, steps, recomputed, providerVars, pureVars>>

\* one pass of the loop of upsertReferenceTickers
SyncUpsertChunk ==
    \E i \in DOMAIN inflight :
       /\ inflight[i].status = 0
       /\ inflight[i].written < Len(inflight[i].merged)
       /\ store' = UpsertReferenceTickers(store, NextChunk(inflight[i]),
                                          inflight[i].runTimestamp)
       /\ inflight' = [inflight EXCEPT ![i].written = @ + Len(NextChunk(inflight[i]))]
       /\ UNCHANGED <<clock, last, steps, recomputed, providerVars, pureVars>>

\* the update of is_active after the last chunk, and the 200
SyncDeactivate ==
    \E i \in DOMAIN inflight :
       /\ inflight[i].status = 0
       /\ inflight[i].written = Len(inflight[i].merged)
       /\ store' = DeactivateStale(store, inflight[i].runTimestamp)
       /\ inflight' = [inflight EXCEPT ![i].deactivated = TRUE, ![i].status = 200]
       /\ last' = [Operation("sync", 200) EXCEPT
                      !.tickers = [k \in DOMAIN inflight[i].merged |->
                                      inflight[i].merged[k].ticker]]
       /\ UNCHANGED <<clock, steps, recomputed, providerVars, pureVars>>

\* the next store call of a run comes back with an error: the 500
SyncThrow ==
    \E i \in DOMAIN inflight :
       /\ inflight[i].status = 0
       /\ inflight' = [inflight EXCEPT ![i].status = 500]
       /\ last' = Operation("sync", 500)
       /\ UNCHANGED <<store, clock, steps, recomputed, providerVars, pureVars>>

OverlapNext == SyncBegin \/ SyncUpsertChunk \/ SyncDeactivate \/ SyncThrow \/ Tick

InitOverlap == StoreInit /\ ProviderInit /\ cache = <<>> /\ PureIdle

SpecOverlap == InitOverlap /\ [][OverlapNext]_vars

MergedSymbols(run) == {run.merged[k].ticker : k \in DOMAIN run.merged}

\* C39: when two catalog runs with run timestamps T1 < T2 have both returned
\* 200, in whatever order their steps were taken, no catalog entry whose
\* symbol was in the feeds of both runs is left with is_active = false
C39_OverlapKeepsSeenActive ==
    (/\ Len(inflight) = 2
     /\ inflight[1].status = 200 /\ inflight[2].status = 200
     /\ inflight[1].runTimestamp < inflight[2].runTimestamp)
    => \A r \in store.reference_tickers :
          r.ticker \in MergedSymbols(inflight[1]) \cap MergedSymbols(inflight[2])
             => r.is_active

(***************************************************************************)
(* Ingestion runs that overlap: each run of handleFetchPricesBatch is      *)
(* taken one store call at a time, the calls of the runs in any order.     *)
(* inflight holds the runs in the order they selected their tickers; at    *)
(* is the call a run makes next.                                           *)
(***************************************************************************)
\* a portfolio holding A and B, nothing fetched yet
HeldStore ==
    LET created == InsertPortfolio(EmptyStore, 1, 0)
        withA == UpsertPositionRow(created, 1, Str("A"), NumberValue(1, 0), NullValue, 0)
    IN UpsertPositionRow(withA, 1, Str("B"), NumberValue(1, 0), NullValue, 0)

\* selectTickers, nowFactory() and fetchQuotes of one run
FetchBegin ==
    /\ Len(inflight) < MaxRuns
    /\ \E config \in FetchConfigs, upstream \in Upstreams :
       \E selection \in SelectAssetTickersForFetch(store, clock, config.batchSize,
                                                   config.minFetchIntervalMinutes) :
          LET tickers == [i \in DOMAIN selection |-> ToUpperCase(selection[i])]
              quotes == IF upstream.kind = "error" \/ tickers = <<>> THEN <<>>
                        ELSE ParseQuoteResponse(upstream.payload, tickers, clock)
          IN inflight' = Append(inflight,
                [tickers |-> tickers, now |-> clock,
                 errorBackoffMinutes |-> config.errorBackoffMinutes,
                 reason |-> upstream.reason, quotes |-> quotes,
                 parts |-> PartitionTickers(tickers, quotes),
                 overlapped |-> \E i \in DOMAIN inflight : inflight[i].status = 0,
                 at |-> IF tickers = <<>> THEN "done"
                        ELSE IF upstream.kind = "error" THEN "markTickersErrored"
                        ELSE "upsertQuotes",
                 status |-> IF tickers = <<>> THEN 200 ELSE 0])
    /\ UNCHANGED <<store, clock, last, steps, recomputed, providerVars, pureVars>>

\* the catch around fetchQuotes: every ticker of the batch is marked, then 502
FetchMarkAll ==
    \E i \in DOMAIN inflight :
       /\ inflight[i].at = "markTickersErrored"
       /\ store' = MarkTickersErrored(store, inflight[i].tickers, inflight[i].now,
                                      inflight[i].errorBackoffMinutes, inflight[i].reason)
       /\ inflight' = [inflight EXCEPT ![i].at = "done", ![i].status = 502]
       /\ last' = [Operation("ingest", 502) EXCEPT !.tickers = inflight[i].tickers]
       /\ UNCHANGED <<clock, steps, recomputed, providerVars, pureVars>>

\* upsertQuotes; the store refuses a quote whose ticker has no asset_tickers row
FetchUpsertQuotes ==
    \E i \in DOMAIN inflight :
       /\ inflight[i].at = "upsertQuotes"
       /\ LET upserts == BuildQuoteUpserts(inflight[i].quotes, inflight[i].now)
          IN IF upserts # <<>> /\ UpsertRefused(store, upserts)
             THEN /\ inflight' = [inflight EXCEPT ![i].at = "done", ![i].status = 500]
                  /\ UNCHANGED store
             ELSE /\ store' = IF upserts = <<>> THEN store ELSE UpsertQuotes(store, upserts)
                  /\ inflight' = [inflight EXCEPT ![i].at = "updateSucceeded"]
       /\ UNCHANGED <<clock, last, steps, recomputed, providerVars, pureVars>>

\* updateTickerStatuses of the succeeded tickers
FetchUpdateSucceeded ==
    \E i \in DOMAIN inflight :
       /\ inflight[i].at = "updateSucceeded"
       /\ store' = IF inflight[i].parts.succeeded = <<>> THEN store
                   ELSE MarkTickersFetched(store, inflight[i].parts.succeeded,
                                           inflight[i].now)
       /\ inflight' = [inflight EXCEPT ![i].at = "markMissing"]
       /\ UNCHANGED <<clock, last, steps, recomputed, providerVars, pureVars>>

\* markTickersErrored of the missing tickers
FetchMarkMissing ==
    \E i \in DOMAIN inflight :
       /\ inflight[i].at = "markMissing"
       /\ store' = IF inflight[i].parts.missing = <<>> THEN store
                   ELSE MarkTickersErrored(store, inflight[i].parts.missing,
                                           inflight[i].now,
                                           inflight[i].errorBackoffMinutes,
                                           "Quote not returned")
       /\ inflight' = [inflight EXCEPT ![i].at = "markPortfoliosStale"]
       /\ UNCHANGED <<clock, last, steps, recomputed, providerVars, pureVars>>

\* markPortfoliosStale, and the 200
FetchMarkStale ==
    \E i \in DOMAIN inflight :
       /\ inflight[i].at = "markPortfoliosStale"
       /\ LET portfolioIds == AffectedPortfolios(store, inflight[i].parts.succeeded)
          IN store' = IF portfolioIds = {} THEN store
                      ELSE UpsertStale(store, portfolioIds, clock)
       /\ inflight' = [inflight EXCEPT ![i].at = "done", ![i].status = 200]
       /\ last' = [Operation("ingest", 200) EXCEPT !.tickers = inflight[i].tickers]
       /\ UNCHANGED <<clock, steps, recomputed, providerVars, pureVars>>

\* the next store call of a run comes back with an error: the outer catch
FetchThrow ==
    \E i \in DOMAIN inflight :
       /\ inflight[i].at # "done"
       /\ inflight' = [inflight EXCEPT ![i].at = "done", ![i].status = 500]
       /\ last' = [Operation("ingest", 500) EXCEPT !.tickers = inflight[i].tickers]
       /\ UNCHANGED <<store, clock, steps, recomputed, providerVars, pureVars>>

ConcurrentNext ==
    \/ FetchBegin
    \/ FetchMarkAll
    \/ FetchUpsertQuotes
    \/ FetchUpdateSucceeded
    \/ FetchMarkMissing
    \/ FetchMarkStale
    \/ FetchThrow
    \/ Tick

InitConcurrent ==
    /\ store = HeldStore
    /\ clock = 0
    /\ last = NoOperation
    /\ steps = 0
    /\ recomputed = {}
    /\ inflight = <<>>
    /\ ProviderInit /\ cache = <<>> /\ PureIdle

SpecConcurrent == InitConcurrent /\ [][ConcurrentNext]_vars

\* C40: in every state, those in the middle of overlapping ingestion runs and
\* after runs that ended in 500 or 502 included, a ticker has no
\* last_fetch_error exactly when it has no retry_after
C40_ErrorIffBackoff ==
    \A r \in store.asset_tickers : (r.last_fetch_error = <<>>) <=> (r.retry_after = <<>>)

\* two overlapping runs over the same ticker are done, one with 502 and one
\* with 200, and the success was written after the failure
C40_Witness ==
    /\ Len(inflight) = 2
    /\ inflight[2].overlapped
    /\ {inflight[1].status, inflight[2].status} = {502, 200}
    /\ \E r \in store.asset_tickers :
          /\ r.ticker \in Range(inflight[1].tickers) \cap Range(inflight[2].tickers)
          /\ r.last_fetched_at # <<>>
          /\ r.last_fetch_error = <<>> /\ r.retry_after = <<>>

(***************************************************************************)
(* Claims about the store and the two batch jobs.                          *)
(***************************************************************************)
IsStale(st, p) == \E r \in st.portfolio_metrics : r.portfolio_id = p /\ r.stale

IsFresh(st, p) == \E r \in st.portfolio_metrics : r.portfolio_id = p /\ ~r.stale

Holds(st, p, ticker) ==
    \E r \in st.portfolio_positions : r.portfolio_id = p /\ r.ticker = ticker

\* C7: a portfolio's aggregate is stale from creation until its first
\* successful recomputation, not stale right after a successful recomputation,
\* and stale right after a mutation of one of its positions or an ingestion
\* run in which a quote was returned for a ticker it holds.
C7_StalenessLifecycle ==
    \A p \in store.portfolios :
       /\ p \notin recomputed => IsStale(store, p)
       /\ (last.op = "recalc" /\ p \in last.done) => IsFresh(store, p)
       /\ (last.op \in {"upsertPosition", "deletePosition"}
             /\ last.status = 200 /\ last.pid = p) => IsStale(store, p)
       /\ (last.op = "ingest"
             /\ \E i \in DOMAIN last.quotes : Holds(store, p, last.quotes[i].ticker))
          => IsStale(store, p)

QuoteValues(st) ==
    {[ticker |-> r.ticker, price |-> r.last_price, currency |-> r.currency,
      priceTime |-> r.last_price_at] : r \in st.asset_quotes}

StaleSet(st) == {r.portfolio_id : r \in {m \in st.portfolio_metrics : m.stale}}

\* C8: a second ingestion run over the same selected tickers with the same
\* upstream response leaves the price, currency and price time of every quote
\* as the first run left them, one quote row per ticker, no row added, and the
\* same aggregates stale.
C8_IngestTwiceSameResult ==
    (/\ last.op = "ingest" /\ last.prev # <<>>
     /\ last.status = 200 /\ last.prev[1].status = 200
     /\ last.tickers # <<>>
     /\ Range(last.tickers) = Range(last.prev[1].tickers)
     /\ last.upstream = last.prev[1].upstream)
    => /\ QuoteValues(store) = QuoteValues(last.before)
       /\ \A q, r \in store.asset_quotes : q.ticker = r.ticker => q = r
       /\ Cardinality(store.asset_quotes) = Cardinality(last.before.asset_quotes)
       /\ StaleSet(store) = StaleSet(last.before)

TickerRow(st, ticker) == CHOOSE r \in st.asset_tickers : r.ticker = ticker

FetchFailed == last.op = "ingest" /\ last.upstream.kind = "error"

EveryTickerErrored ==
    \A i \in DOMAIN last.tickers :
       /\ \E r \in store.asset_tickers : r.ticker = last.tickers[i]
       /\ TickerRow(store, last.tickers[i]).last_fetch_error = <<last.upstream.reason>>
       /\ TickerRow(store, last.tickers[i]).retry_after =
             <<last.now + last.errorBackoffMinutes>>

UpstreamFailureReported ==
    /\ last.status = 502
    /\ last.body = [NoBody EXCEPT !.error = last.upstream.reason,
                                  !.processedTickers = Len(last.tickers)]

FetchedAt(st) == {<<r.ticker, r.last_fetched_at>> : r \in st.asset_tickers}

Staleness(st) ==
    {<<r.portfolio_id, r.stale, r.stale_reason>> : r \in st.portfolio_metrics}

\* C10: an ingestion run whose quote fetch fails changes no quote row, no
\* ticker's last_fetched_at and no aggregate's stale flag or stale_reason.
C10_FetchFailureSkipsWrites ==
    FetchFailed =>
       /\ store.asset_quotes = last.before.asset_quotes
       /\ FetchedAt(store) = FetchedAt(last.before)
       /\ Staleness(store) = Staleness(last.before)

C10_Witness ==
    /\ FetchFailed
    /\ last.status = 502
    /\ \E i \in DOMAIN last.tickers :
          /\ \E q \in store.asset_quotes : q.ticker = last.tickers[i]
          /\ TickerRow(store, last.tickers[i]).last_fetched_at # <<>>
          /\ \E p \in store.portfolios : Holds(store, p, last.tickers[i])

Succeeded == PartitionTickers(last.tickers, last.quotes).succeeded

Missing == PartitionTickers(last.tickers, last.quotes).missing

IngestReturned == last.op = "ingest" /\ last.status = 200

\* C11: after an ingestion run that returns 200 with a non-empty selection,
\* every succeeded ticker has last_fetched_at = the run's now and neither a
\* fetch error nor a retry time, and every missing ticker has last_fetch_error
\* "Quote not returned", retry_after = now + errorBackoffMinutes and the
\* last_fetched_at it had before the run.
C11_TickerBookkeeping ==
    (IngestReturned /\ last.tickers # <<>>) =>
       /\ \A i \in DOMAIN Succeeded :
             /\ \E r \in store.asset_tickers : r.ticker = Succeeded[i]
             /\ TickerRow(store, Succeeded[i]).last_fetched_at = <<last.now>>
             /\ TickerRow(store, Succeeded[i]).last_fetch_error = <<>>
             /\ TickerRow(store, Succeeded[i]).retry_after = <<>>
       /\ \A i \in DOMAIN Missing :
             /\ \E r \in store.asset_tickers : r.ticker = Missing[i]
             /\ TickerRow(store, Missing[i]).last_fetch_error = <<"Quote not returned">>
             /\ TickerRow(store, Missing[i]).retry_after =
                   <<last.now + last.errorBackoffMinutes>>
             /\ TickerRow(store, Missing[i]).last_fetched_at =
                   TickerRow(last.before, Missing[i]).last_fetched_at

C11_Witness ==
    /\ IngestReturned
    /\ Succeeded # <<>>
    /\ Missing # <<>>
    /\ \E i \in DOMAIN Succeeded :
          TickerRow(store, Succeeded[i]).last_fetched_at = <<last.now>>
    /\ \E i \in DOMAIN Missing :
          TickerRow(store, Missing[i]).retry_after = <<last.now + 2>>

MetricsRow(st, p) == CHOOSE r \in st.portfolio_metrics : r.portfolio_id = p

HoldsSucceeded(p) == \E i \in DOMAIN Succeeded : Holds(store, p, Succeeded[i])

\* C12: after an ingestion run that returns 200, every portfolio holding a
\* succeeded ticker has its aggregate stale with stale_reason "prices_updated"
\* and the metrics and as_of it had before, and the aggregate of every other
\* portfolio is as it was before the run.
C12_HoldersMarkedStale ==
    IngestReturned =>
       \A p \in store.portfolios :
          /\ \E r \in store.portfolio_metrics : r.portfolio_id = p
          /\ IF HoldsSucceeded(p)
             THEN /\ MetricsRow(store, p).stale
                  /\ MetricsRow(store, p).stale_reason = <<"prices_updated">>
                  /\ MetricsRow(store, p).metrics = MetricsRow(last.before, p).metrics
                  /\ MetricsRow(store, p).as_of = MetricsRow(last.before, p).as_of
             ELSE MetricsRow(store, p) = MetricsRow(last.before, p)

C12_Witness ==
    /\ IngestReturned
    /\ \E p \in store.portfolios :
          /\ HoldsSucceeded(p)
          /\ ~MetricsRow(last.before, p).stale
          /\ MetricsRow(last.before, p).metrics # <<>>
          /\ MetricsRow(store, p).stale
          /\ MetricsRow(store, p).as_of < last.now

\* C13: in a metrics run with a non-empty batch, every portfolio whose
\* recomputation failed keeps the aggregate it had, stale; every portfolio of
\* the batch either succeeded or failed, none is skipped; and the run answers
\* 200 with processedPortfolios = the batch size = recalculated + failed.
C13_PortfolioFailureIsolated ==
    (last.op = "recalc" /\ last.batch # <<>>) =>
       /\ \A p \in last.failed :
             /\ MetricsRow(store, p) = MetricsRow(last.before, p)
             /\ MetricsRow(store, p).stale
       /\ last.done \cup last.failed = Range(last.batch)
       /\ last.done \cap last.failed = {}
       /\ \A p \in last.done : ~MetricsRow(store, p).stale
       /\ last.status = 200
       /\ last.body = [NoBody EXCEPT !.processedPortfolios = Len(last.batch),
                                     !.recalculated = Cardinality(last.done),
                                     !.failed = Cardinality(last.failed)]
       /\ Cardinality(last.done) + Cardinality(last.failed) = Len(last.batch)

C13_Witness ==
    /\ last.op = "recalc"
    /\ Len(last.batch) = 2
    /\ last.batch[1] \in last.failed
    /\ last.batch[2] \in last.done
    /\ last.body.recalculated = 1
    /\ last.body.failed = 1

LoadedTickers(st, p) ==
    {ToUpperCase(r.ticker) : r \in {x \in st.portfolio_positions : x.portfolio_id = p}}

\* what recomputePortfolio computes for p from the store st
MetricsOf(st, p) ==
    CalculatePortfolioMetrics(LoadPortfolioPositions(st, p),
                              LoadQuotesForPositions(st, LoadedTickers(st, p)))

\* C14: a metrics run turns an aggregate to stale=false only for a portfolio
\* of its batch that was stale and whose recomputation succeeded, and each such
\* aggregate then has stale=false, no stale_reason, as_of = the run's time and
\* the metrics calculatePortfolioMetrics gives for the loaded positions and quotes.
C14_FreshOnlyAfterSuccess ==
    last.op = "recalc" =>
       /\ \A p \in store.portfolios :
             MetricsRow(store, p) # MetricsRow(last.before, p) => p \in last.done
       /\ \A p \in last.done :
             /\ p \in Range(last.batch)
             /\ MetricsRow(last.before, p).stale
             /\ ~MetricsRow(store, p).stale
             /\ MetricsRow(store, p).stale_reason = <<>>
             /\ MetricsRow(store, p).as_of = last.now
             /\ MetricsRow(store, p).metrics = <<MetricsOf(last.before, p)>>

C14_Witness ==
    /\ last.op = "recalc"
    /\ \E p \in last.done :
          /\ MetricsRow(store, p).metrics # <<>>
          /\ MetricsRow(store, p).metrics[1].position_count = 1
          /\ MetricsRow(store, p).metrics[1].positions_missing_quotes = 0
          /\ MetricsRow(store, p).metrics[1].total_value.n > 0
          /\ MetricsRow(last.before, p).as_of < last.now

\* C20: a request to fetch-prices-batch, recalc-metrics-batch or
\* sync-reference-tickers whose method is neither GET nor POST is answered 405
\* "Method not allowed" and has made no call to the store or to an upstream,
\* the store being as it was.
C20_MethodNotAllowed ==
    (last.op \in {"ingest", "recalc", "sync"} /\ last.method \notin {"GET", "POST"})
    => /\ last.status = 405
       /\ last.body = MethodNotAllowedBody
       /\ last.calls = <<>>
       /\ store = last.before
       /\ last.upstream = NoUpstream

\* a refused request where the job had work to do: a ticker due for a fetch,
\* a stale aggregate
C20_Witness ==
    /\ last.op = "ingest"
    /\ last.method = "DELETE"
    /\ last.status = 405
    /\ store.asset_tickers # {}
    /\ \E r \in store.portfolio_metrics : r.stale
    /\ store.asset_quotes = {}

(***************************************************************************)
(* Claims about the provider's 401 retry.                                  *)
(***************************************************************************)
BatchStatuses == [i \in DOMAIN blog |-> blog[i].status]

\* C1: a batch whose first data call is answered 401 and whose second data call
\* succeeds performs exactly one cache.invalidate() and exactly two data calls,
\* and fetchBatch returns the quotes parsed from the second response.
C1_AuthRetryOnce ==
    (bstate = "returned" /\ Len(blog) >= 2
        /\ blog[1].status = 401 /\ blog[2].status = 200)
    => /\ binval = 1
       /\ Len(blog) = 2
       /\ bresult = ParseQuoteResponse(blog[2].payload, pbatches[1], blog[2].at)

C1_Witness ==
    /\ bstate = "returned"
    /\ BatchStatuses = <<401, 200>>
    /\ bresult # <<>>
    /\ bresult[1].price = 11

\* C2: a batch never sees more than two data calls nor more than one cache
\* invalidation, and when the retried data call is answered 401 too, fetchQuotes
\* has ended with the terminal error.
C2_SecondUnauthorizedIsTerminal ==
    /\ Len(blog) <= 2
    /\ binval <= 1
    /\ (Len(blog) = 2 /\ blog[1].status = 401 /\ blog[2].status = 401)
       => /\ ppc = "failed"
          /\ bstate = "threw"
          /\ perror = "Yahoo Finance authentication failed after retry"
          /\ preturn = <<>>

C2_Witness ==
    /\ BatchStatuses = <<401, 401>>
    /\ ppc = "failed"
    /\ binval = 1

(***************************************************************************)
(* Claims about the provider's credentials and batching.                   *)
(***************************************************************************)
\* the record a load found is one tryLoadFromCache accepts at that time
RecordUsable(load) ==
    /\ load.record # <<>>
    /\ load.record[1].parsable
    /\ load.at < load.record[1].expiresAt

CachedUsableAtStart == pfirst # <<>> /\ pfirst[1].ok /\ RecordUsable(pfirst[1])

NoUnauthorized == \A i \in DOMAIN prequests : prequests[i].status # 401

UnusableLoads ==
    {i \in DOMAIN ptrace : ptrace[i].e = "load" /\ ~RecordUsable(ptrace[i])}

\* C16: after a load that found no record, a record with an unparsable
\* expiry or one with expiresAt <= now, the next calls are the cookie request,
\* the crumb request with that cookie, and cache.save of the new pair with
\* expiresAt = now + credentialTtlMs, all before the data call, which carries
\* the new pair; no data call after the load carries the cached pair.
C16_UnusableRecordDiscarded ==
    \A i \in UnusableLoads :
       LET record == ptrace[i].record
           rest == SubSeq(ptrace, i + 1, Len(ptrace))
       IN /\ Len(rest) = 0 => ppc = "cookie"
          /\ Len(rest) >= 1 => rest[1].e = "cookie"
          /\ Len(rest) >= 2 =>
                /\ rest[1].ok
                /\ rest[2].e = "crumb"
                /\ rest[2].cookie = rest[1].cookie
          /\ Len(rest) >= 3 =>
                /\ rest[2].ok
                /\ rest[3].e = "save"
                /\ rest[3].record = <<[cookie |-> rest[1].cookie, crumb |-> rest[2].crumb,
                                       expiresAt |-> rest[3].at + CredentialTtl,
                                       parsable |-> TRUE]>>
          /\ (Len(rest) = 3 /\ rest[3].ok) => cache = rest[3].record
          /\ Len(rest) >= 4 =>
                /\ rest[4].e = "data"
                /\ rest[4].cookie = rest[1].cookie
                /\ rest[4].crumb = rest[2].crumb
          /\ \A j \in DOMAIN rest :
                (rest[j].e = "data" /\ record # <<>>) =>
                   /\ rest[j].cookie # record[1].cookie
                   /\ rest[j].crumb # record[1].crumb

C16_Witness ==
    /\ Len(ptrace) = 5
    /\ ptrace[1].e = "load"
    /\ ptrace[1].record # <<>>
    /\ ptrace[1].record[1].parsable
    /\ ptrace[1].record[1].expiresAt <= ptrace[1].at
    /\ ptrace[4].e = "save" /\ ptrace[4].ok /\ ptrace[4].at = 2
    /\ ptrace[5].e = "data" /\ ptrace[5].status = 200 /\ ptrace[5].cookie = 1
    /\ cache # <<>> /\ cache[1].expiresAt = 2 + CredentialTtl

FailedSaves == {i \in DOMAIN ptrace : ptrace[i].e = "save" /\ ~ptrace[i].ok}

\* C17: when cache.save fails after a handshake, the call goes on to the data
\* call, which carries the pair just obtained, held in memory, and the batch
\* returns what that call's answer gives.
C17_SaveFailureSwallowed ==
    \A i \in FailedSaves :
       /\ i = Len(ptrace) =>
             /\ ppc = "data"
             /\ cookie = ptrace[i].cookie
             /\ crumb = ptrace[i].crumb
       /\ i < Len(ptrace) =>
             /\ ptrace[i + 1].e = "data"
             /\ ptrace[i + 1].cookie = ptrace[i].cookie
             /\ ptrace[i + 1].crumb = ptrace[i].crumb
       /\ (i + 1 = Len(ptrace) /\ ptrace[i + 1].status = 200) =>
             /\ bstate = "returned"
             /\ perror = ""
             /\ bresult = ParseQuoteResponse(blog[Len(blog)].payload, pbatches[1],
                                             blog[Len(blog)].at)
             /\ Len(pbatches) = 1 => ppc = "done" /\ preturn = presults

C17_Witness ==
    /\ FailedSaves # {}
    /\ ppc = "done"
    /\ preturn # <<>>
    /\ ptrace[Len(ptrace)].e = "data"
    /\ ptrace[Len(ptrace)].cookie = 1
    /\ cache = <<>>

UpperCased == {ToUpperCase(ptickers[i]) : i \in DOMAIN ptickers}

RequestsOf(symbol) ==
    {i \in DOMAIN prequests : symbol \in Range(prequests[i].symbols)}

RequestSizes ==
    \A i \in DOMAIN prequests :
       Len(prequests[i].symbols) >= 1 /\ Len(prequests[i].symbols) <= 10

EmptyInputNoRequest ==
    (ptickers = <<>> /\ pcalls > 0) => prequests = <<>> /\ pcalled = {} /\ ppc = "done"

\* C18 as stated: every data request carries 1 to 10 symbols, an empty input
\* issues no request, and when fetchQuotes has returned each distinct
\* upper-cased symbol was sent in exactly one data request.
C18_Original ==
    /\ RequestSizes
    /\ EmptyInputNoRequest
    /\ ppc = "done" => \A s \in UpperCased : Cardinality(RequestsOf(s)) = 1

\* C18 as amended: every data request carries 1 to 10 distinct upper-cased
\* symbols of the input; two requests carry either the same symbols or no
\* common symbol; the same symbols are requested a second time only as the
\* next request after a 401; a request for other symbols follows only a
\* request answered with success; when fetchQuotes has returned every symbol
\* was requested, once or, after a 401, twice; an empty input issues no request.
C18_BatchedRequests ==
    /\ RequestSizes
    /\ EmptyInputNoRequest
    /\ \A i \in DOMAIN prequests :
          /\ Range(prequests[i].symbols) \subseteq UpperCased
          /\ Cardinality(Range(prequests[i].symbols)) = Len(prequests[i].symbols)
    /\ \A i, j \in DOMAIN prequests :
          i < j =>
             IF prequests[i].symbols = prequests[j].symbols
             THEN j = i + 1 /\ prequests[i].status = 401
             ELSE Range(prequests[i].symbols) \cap Range(prequests[j].symbols) = {}
    /\ \A i \in DOMAIN prequests :
          i < Len(prequests) =>
             IF prequests[i].status = 401
             THEN prequests[i + 1].symbols = prequests[i].symbols
             ELSE prequests[i].status = 200
    /\ ppc = "done" =>
          \A s \in UpperCased :
             /\ Cardinality(RequestsOf(s)) \in {1, 2}
             /\ \E i \in RequestsOf(s) : prequests[i].status = 200

C18_Witness ==
    /\ ppc = "done"
    /\ Len(ptickers) = 11
    /\ Len(prequests) = 3
    /\ Len(prequests[1].symbols) = 10
    /\ prequests[1].status = 200
    /\ Len(prequests[2].symbols) = 1
    /\ prequests[2].status = 401
    /\ prequests[3].symbols = prequests[2].symbols
    /\ prequests[3].status = 200

\* the handshake of the current batch failed
HandshakeFailed ==
    \E i \in DOMAIN ptrace : ptrace[i].e \in {"cookie", "crumb"} /\ ~ptrace[i].ok

\* request i was answered with a failure status, or with a second 401
RequestFailed(i) ==
    \/ prequests[i].status \notin {200, 401}
    \/ /\ prequests[i].status = 401
       /\ i > 1
       /\ prequests[i - 1].status = 401
       /\ prequests[i - 1].symbols = prequests[i].symbols

\* C19: when a batch fails (a failed handshake, a failure status, a second
\* 401) that was the call's last request, fetchQuotes has thrown and returned
\* no quote, and no batch after the failed one was requested.
C19_BatchFailureAbortsCall ==
    /\ HandshakeFailed =>
          /\ ppc = "failed"
          /\ ~ptrace[Len(ptrace)].ok
    /\ \A i \in DOMAIN prequests :
          RequestFailed(i) => i = Len(prequests) /\ ppc = "failed"
    /\ ppc = "failed" =>
          /\ preturn = <<>>
          /\ perror # ""
          /\ bstate = "threw"
          /\ \A i \in DOMAIN prequests :
                \A k \in 2..Len(pbatches) : prequests[i].symbols # pbatches[k]

C19_Witness ==
    /\ ppc = "failed"
    /\ presults # <<>>
    /\ Len(prequests) = 2
    /\ prequests[1].status = 200
    /\ prequests[2].status = 500
    /\ preturn = <<>>

\* the data calls of the current batch answered 401 that were retried
RetriedRejections ==
    {i \in DOMAIN ptrace :
        /\ ptrace[i].e = "data" /\ ptrace[i].status = 401
        /\ \E j \in DOMAIN ptrace : j > i /\ ptrace[j].e = "data"}

\* C27: the retry after a data call answered 401 carries a cookie and crumb
\* obtained by a handshake made after that answer, not the rejected pair,
\* also when cache.invalidate() failed.
C27_RetryUsesFreshHandshake ==
    \A i \in RetriedRejections :
       \A j \in DOMAIN ptrace :
          (j > i /\ ptrace[j].e = "data") =>
             /\ ptrace[j].cookie # ptrace[i].cookie
             /\ ptrace[j].crumb # ptrace[i].crumb
             /\ \E k \in DOMAIN ptrace :
                   /\ i < k /\ k < j
                   /\ ptrace[k].e = "crumb" /\ ptrace[k].ok
                   /\ ptrace[k].cookie = ptrace[j].cookie
                   /\ ptrace[k].crumb = ptrace[j].crumb

\* the last thing the provider did was a data call
DataCallMade ==
    /\ ptrace # <<>>
    /\ ptrace[Len(ptrace)].e = "data"
    /\ blog # <<>>

\* C28: every data call carries credentials whose expiresAt is later than the
\* provider's clock at that call, in every batch of the call.
C28_DataCallBeforeExpiry ==
    DataCallMade => blog[Len(blog)].at < pexpires

\* every crumb request comes right after a cookie request that returned a
\* cookie, and carries that cookie
CrumbFollowsCookie ==
    \A i \in DOMAIN ptrace :
       ptrace[i].e = "crumb" =>
          /\ i > 1
          /\ ptrace[i - 1].e = "cookie"
          /\ ptrace[i - 1].ok
          /\ ptrace[i].cookie = ptrace[i - 1].cookie

\* every cache.save comes right after a crumb request that returned a crumb
SaveFollowsCrumb ==
    \A i \in DOMAIN ptrace :
       ptrace[i].e = "save" =>
          i > 1 /\ ptrace[i - 1].e = "crumb" /\ ptrace[i - 1].ok

\* C34: the cookie is requested before the crumb and sent on the crumb
\* request; the in-memory cookie and crumb are both absent or both present
\* in every state; and a failed cookie or crumb step is the last request of
\* the handshake, with no crumb request after a failed cookie step, no
\* cache.save, and the in-memory pair still absent.
C34_CredentialsNeverHalfUpdated ==
    /\ CrumbFollowsCookie
    /\ SaveFollowsCrumb
    /\ (cookie = 0) <=> (crumb = 0)
    /\ \A i \in DOMAIN ptrace :
          ptrace[i].e \in {"cookie", "crumb"} /\ ~ptrace[i].ok =>
             i = Len(ptrace) /\ cookie = 0 /\ crumb = 0

\* a handshake got its cookie and failed at the crumb, after an invalidation
C34_Witness ==
    /\ Len(ptrace) >= 2
    /\ ptrace[Len(ptrace)].e = "crumb"
    /\ ~ptrace[Len(ptrace)].ok
    /\ "invalidate" \in pcalled

(***************************************************************************)
(* Claims about the outcome of an ingestion run.                           *)
(***************************************************************************)
IngestServed == last.op = "ingest" /\ last.method \in {"GET", "POST"}

CountsReported ==
    /\ last.body.processedTickers >= 0
    /\ last.body.updatedTickers >= 0
    /\ last.body.missingTickers >= 0
    /\ last.body.stalePortfolios >= 0

\* C21: an ingestion run whose quote fetch returned answers 2xx with the four
\* counts, whatever store call fails afterwards (quote upsert, ticker
\* bookkeeping, staleness marking).
C21_FetchedRunReturnsCounts ==
    (IngestServed /\ last.upstream.kind = "quotes") =>
       /\ last.status >= 200 /\ last.status <= 299
       /\ CountsReported

NewlyStale ==
    {p \in store.portfolios : ~IsStale(last.before, p) /\ IsStale(store, p)}

\* C23: stalePortfolios in the answer of a 200 ingestion run is the number of
\* portfolios whose aggregate was not stale before the run and is stale after
\* it; a portfolio already stale before the run is not counted.
C23_CountsNewlyStale ==
    (IngestServed /\ last.status = 200) =>
       last.body.stalePortfolios = Cardinality(NewlyStale)

\* the selection was made: the run got past selectTickers
SelectionMade == IngestServed /\ last.calls # <<>> /\ last.storeError # "selectTickers"

\* an asset_tickers row the selection may return at the time of the run
Eligible(r) ==
    /\ r.status = "active"
    /\ (r.retry_after = <<>> \/ r.retry_after[1] <= last.now)
    /\ (r.last_fetched_at = <<>>
        \/ last.now - r.last_fetched_at[1] > last.minFetchIntervalMinutes)

\* a is never fetched, or was fetched before b
FetchedBefore(a, b) ==
    /\ b.last_fetched_at # <<>>
    /\ (a.last_fetched_at = <<>> \/ a.last_fetched_at[1] < b.last_fetched_at[1])

SelectedRows ==
    {r \in last.before.asset_tickers : r.ticker \in Range(last.tickers)}

MetricsRowsOf(st, p) == {r \in st.portfolio_metrics : r.portfolio_id = p}

\* C26: every portfolio has exactly one portfolio_metrics row, created stale
\* together with the portfolio; no position change, ingestion run or metrics
\* run adds a second row or removes the row.
C26_OneAggregatePerPortfolio ==
    /\ \A p \in store.portfolios : Cardinality(MetricsRowsOf(store, p)) = 1
    /\ last.op = "createPortfolio" =>
          /\ MetricsRowsOf(last.before, last.pid) = {}
          /\ \A r \in MetricsRowsOf(store, last.pid) : r.stale
    /\ \A r \in store.portfolio_metrics : r.portfolio_id \in store.portfolios

C26_Witness ==
    /\ last.op = "recalc"
    /\ last.done # {}
    /\ store.asset_quotes # {}
    /\ \E r \in store.portfolio_metrics : ~r.stale /\ r.metrics # <<>>
    /\ \A p \in store.portfolios : Cardinality(MetricsRowsOf(store, p)) = 1

\* the rows a recomputation of the portfolio would load now
InputsNow(p) ==
    LET positions == LoadPortfolioPositions(store, p)
        tickers == {ToUpperCase(positions[i].ticker) : i \in DOMAIN positions}
    IN [positions |-> positions, quotes |-> LoadQuotesForPositions(store, tickers)]

\* a recomputation has just persisted what it computed from rows that a
\* position request or an ingestion run has changed since it loaded them
PersistedOutdated ==
    /\ last.op = "recomputePortfolio"
    /\ inflight # <<>>
    /\ inflight[1].persisted
    /\ InputsNow(inflight[1].portfolioId) #
          [positions |-> inflight[1].positions, quotes |-> inflight[1].quotes]

\* C29: a recomputation that loaded its positions and quotes before a position
\* change or quote refresh touching the portfolio completed does not leave the
\* aggregate stale=false: the aggregate stays stale until a recomputation that
\* loaded after the change succeeds.
C29_StaleUntilRecomputedAfterChange ==
    PersistedOutdated => IsStale(store, inflight[1].portfolioId)

\* the tickers whose quote row the run inserted or overwrote
WrittenQuotes ==
    IF "upsertQuotes" \in Range(last.calls) /\ last.storeError # "upsertQuotes"
    THEN {last.quotes[i].ticker : i \in DOMAIN last.quotes}
    ELSE {}

\* C30: when an ingestion run has written the quote row of a ticker, then as
\* the run answers, with 200, 500 or 502, every portfolio holding that ticker
\* has its aggregate stale, also after a store error in the ticker
\* bookkeeping or in the staleness marking.
C30_WrittenQuoteMarksHolders ==
    IngestServed =>
       \A ticker \in WrittenQuotes :
          \A p \in store.portfolios : Holds(store, p, ticker) => IsStale(store, p)

\* an ingestion run that ended after it wrote quote rows and before its last
\* write, followed by a run with the same configuration and the same
\* upstream response that answered 200
RerunAfterInterruption ==
    /\ IngestServed
    /\ last.prev # <<>>
    /\ last.prev[1].status = 500
    /\ last.prev[1].written # {}
    /\ last.status = 200
    /\ \/ last.tickers = <<>>
       \/ last.tickers = last.prev[1].tickers /\ last.upstream = last.prev[1].upstream
    /\ last.batchSize = last.prev[1].batchSize

\* C31: after an ingestion run that was interrupted between two of its
\* writes, a second run with the same upstream response leaves what an
\* uninterrupted run leaves: a quote row for every ticker quoted, the
\* bookkeeping of every selected ticker (fetched or in backoff), and
\* stale=true on every portfolio holding a ticker whose quote was written.
C31_RerunCompletesInterruptedRun ==
    RerunAfterInterruption =>
       /\ \A ticker \in last.prev[1].written :
             /\ \E q \in store.asset_quotes : q.ticker = ticker
             /\ TickerRow(store, ticker).last_fetched_at # <<>>
             /\ TickerRow(store, ticker).retry_after = <<>>
       /\ \A ticker \in Range(last.prev[1].tickers) \ last.prev[1].written :
             TickerRow(store, ticker).retry_after # <<>>
       /\ \A ticker \in last.prev[1].written :
             \A p \in store.portfolios : Holds(store, p, ticker) => IsStale(store, p)

\* the succeeded tickers of the last run: the selected tickers the provider
\* returned a quote for
SucceededSet == Range(PartitionTickers(last.tickers, last.quotes).succeeded)

\* C33: the quote rows a run writes are those of its succeeded tickers, for
\* any result of the quote provider: every row the run wrote or changed is
\* the row of a succeeded ticker, so none lies outside the selected batch and
\* none belongs to a missing ticker, and each succeeded ticker has exactly
\* one row.
C33_WritesExactlySucceeded ==
    IngestServed /\ last.status = 200 /\ last.tickers # <<>> =>
       /\ WrittenQuotes = SucceededSet
       /\ \A q \in store.asset_quotes \ last.before.asset_quotes : q.ticker \in SucceededSet
       /\ \A ticker \in SucceededSet :
             Cardinality({q \in store.asset_quotes : q.ticker = ticker}) = 1

\* the ticker is active and the selection of a run started now would take it
\* or leave it out for the batch size only
DueForFetch(ticker) ==
    \E r \in store.asset_tickers :
       /\ r.ticker = ticker
       /\ r.status = "active"
       /\ r.retry_after = <<>> \/ r.retry_after[1] <= clock
       /\ \/ r.last_fetched_at = <<>>
          \/ \A c \in FetchConfigs : clock - r.last_fetched_at[1] > c.minFetchIntervalMinutes

\* the last run selected the ticker and recorded its fetch
FetchedByLastRun(ticker) ==
    /\ last.op = "ingest"
    /\ last.status = 200
    /\ ticker \in Range(last.tickers)
    /\ TickerRow(store, ticker).last_fetched_at = <<clock>>

\* C32: with runs recurring forever and time advancing, an active ticker the
\* upstream has a quote for, once due, is eventually selected by a run and
\* gets its last_fetched_at updated, for batchSize 1 and larger, also when the
\* other tickers never receive a quote and some runs fail at the fetch.
C32_FairRotation == DueForFetch(Str("A")) ~> FetchedByLastRun(Str("A"))

(***************************************************************************)
(* parseQuoteResponse applied to drawn payloads, and the partition the     *)
(* ingestion run makes of the requested symbols with its result.           *)
(***************************************************************************)
MaxEntries == 2      \* entries of a quote response

ParseSymbols == {Str("A"), Str("a"), Str("Z")}

\* the entries the upstream may send: each of the three prices missing, NaN or
\* a number of its own
ParseEntries ==
    {[RegularEntry(s, regular, Num(1)) EXCEPT !.postMarketPrice = post,
                                              !.preMarketPrice = pre] :
        s \in ParseSymbols,
        regular \in {Absent, NaNValue, Num(1)},
        post \in {Absent, NaNValue, Num(2)},
        pre \in {Absent, NaNValue, Num(3)}}

ParseInputs ==
    [payload : SeqsUpTo(ParseEntries, MaxEntries),
     expectedSymbols : {<<Str("A"), Str("B")>>}]

InitParse ==
    /\ fn = "parseQuoteResponse" /\ arg \in ParseInputs /\ res = <<>>
    /\ ProviderInit /\ cache = <<>> /\ StoreIdle

\* fetchBatch's parseQuoteResponse(payload, symbols), then the run's
\* partitionTickers(tickers, remoteQuotes)
ApplyParseQuoteResponse ==
    /\ fn = "parseQuoteResponse"
    /\ res = <<>>
    /\ LET quotes == ParseQuoteResponse(arg.payload, arg.expectedSymbols, 0)
       IN res' = <<[quotes |-> quotes,
                    parts |-> PartitionTickers(arg.expectedSymbols, quotes)]>>
    /\ UNCHANGED <<fn, arg, providerVars, storeVars>>

SpecParse == InitParse /\ [][ApplyParseQuoteResponse]_vars

\* the first of the three prices that is of type number, NaN included
ChosenPrice(entry) ==
    IF entry.regularMarketPrice.k # "absent" THEN entry.regularMarketPrice
    ELSE IF entry.postMarketPrice.k # "absent" THEN entry.postMarketPrice
    ELSE entry.preMarketPrice

\* the entries that yield a quote: symbol requested, chosen price a real number
QuotedEntries ==
    SelectSeq(arg.payload,
              LAMBDA entry : /\ ToUpperCase(entry.symbol) \in Range(arg.expectedSymbols)
                             /\ ChosenPrice(entry).k = "num")

SyncReturned == last.op = "sync" /\ last.status = 200

\* the catalog rows that were there before the run, were last seen before it
\* and are not in the merged feeds
NotSeenRows ==
    {r \in last.before.reference_tickers :
        r.last_seen_at < last.now /\ r.ticker \notin Range(last.tickers)}

\* C22: after a catalog run that answers 200 with run timestamp T, every
\* symbol of the merged feeds is active with last_seen_at = T, every earlier
\* entry with last_seen_at < T that is not in the feeds is inactive, and
\* 'deactivated' is the number of rows the deactivation updated.
C22_SyncDeactivatesUnseen ==
    SyncReturned =>
       /\ \A i \in DOMAIN last.tickers :
             \E r \in store.reference_tickers :
                r.ticker = last.tickers[i] /\ r.is_active /\ r.last_seen_at = last.now
       /\ \A old \in NotSeenRows :
             \E r \in store.reference_tickers : r.ticker = old.ticker /\ ~r.is_active
       /\ last.body.deactivated = Cardinality(NotSeenRows)
       /\ \A q, r \in store.reference_tickers : q.ticker = r.ticker => q = r

C22_Witness ==
    /\ SyncReturned
    /\ last.tickers = <<Str("B")>>
    /\ last.body.deactivated = 1
    /\ \E r \in last.before.reference_tickers : r.ticker = Str("A") /\ r.is_active
    /\ \E r \in store.reference_tickers : r.ticker = Str("A") /\ ~r.is_active
    /\ \E r \in store.reference_tickers : r.ticker = Str("B") /\ r.last_seen_at = last.now

SyncFailed == last.op = "sync" /\ last.status = 500

\* the rows the run left inactive that were active, or absent, before it
DeactivatedByRun ==
    {r \in store.reference_tickers : ~r.is_active /\ r \notin last.before.reference_tickers}

\* C35: a catalog run deactivates only after both downloads and every upsert
\* chunk succeeded: a run that rows were deactivated by answered 200 and made
\* its downloads and its upsert before; a run whose download failed answers
\* 500 with the catalog as it was; a run whose upsert failed at some chunk
\* answers 500 with no row set inactive.
C35_DeactivationAfterUpserts ==
    /\ last.op = "sync" /\ DeactivatedByRun # {} =>
          /\ last.status = 200
          /\ last.calls[Len(last.calls)] = "deactivate"
          /\ {"downloadNasdaq", "downloadOther"} \subseteq Range(last.calls)
    /\ SyncFailed /\ last.body.error = "Failed to download directory" =>
          store.reference_tickers = last.before.reference_tickers
    /\ SyncFailed /\ last.body.error = "Failed to upsert reference tickers" =>
          DeactivatedByRun = {}

\* the second chunk failed after the first was written, and an entry of an
\* earlier run that is in neither feed stays active
C35_Witness ==
    /\ SyncFailed
    /\ last.body.error = "Failed to upsert reference tickers"
    /\ store.reference_tickers # last.before.reference_tickers
    /\ \E r \in store.reference_tickers :
          /\ r.ticker \notin Range(last.tickers)
          /\ r.last_seen_at < last.now
          /\ r.is_active

====
